---- MODULE Spec2Model ----
(***************************************************************************)
(* A model of the commit-statistics engine of py/git-stats                  *)
(* (git_analyzer.py, class GitAnalyzer): discovery of repositories,         *)
(* extraction of commit records from the output of git, the deduplicated    *)
(* commit table, its grouping by period and contributor, and the export     *)
(* and summary operations; of the command line that drives it (cli.py);    *)
(* and of the session state of the dashboard (streamlit_app.py).            *)
(*                                                                         *)
(* Python strings are sequences of one-character strings, so that the       *)
(* substring tests, splits and digit filters of the source are computed as  *)
(* the source computes them.                                                *)
(***************************************************************************)
EXTENDS Integers, Sequences, FiniteSets, TLC

(***************************************************************************)
(* Python str operations used by the source.                                *)
(***************************************************************************)

\* The characters that occur in the modelled git output, in code-point order.
Alphabet ==
  <<"\n", " ", "(", ")", "+", ",", "-",
    "0", "1", "2", "3", "4", "5", "6", "7", "8", "9", ":",
    "a", "b", "c", "d", "e", "f", "g", "h", "i", "j", "k", "l", "m",
    "n", "o", "p", "q", "r", "s", "t", "u", "v", "w", "x", "y", "z", "|">>

\* ord(c), up to an order-preserving renumbering.
Ord(c) == CHOOSE i \in 1..Len(Alphabet) : Alphabet[i] = c

Digits == <<"0", "1", "2", "3", "4", "5", "6", "7", "8", "9">>

\* str.isdigit on one character.
IsDigit(c) == c \in {"0", "1", "2", "3", "4", "5", "6", "7", "8", "9"}

DigitVal(c) == (CHOOSE i \in 1..10 : Digits[i] = c) - 1

\* str.isspace on one character.
IsSpace(c) == c \in {" ", "\n"}

\* `sub in s` for strings.
Contains(s, sub) ==
  \E i \in 0..(Len(s) - Len(sub)) :
    \A j \in 1..Len(sub) : s[i + j] = sub[j]

\* s.count(c) for a one-character c.
Count(s, c) == Cardinality({i \in 1..Len(s) : s[i] = c})

\* s.split(sep) for a one-character sep: always at least one piece.
RECURSIVE Split(_, _)
Split(s, sep) ==
  IF \A i \in 1..Len(s) : s[i] # sep
  THEN <<s>>
  ELSE LET k == CHOOSE i \in 1..Len(s) :
                  s[i] = sep /\ \A j \in 1..(i - 1) : s[j] # sep
       IN <<SubSeq(s, 1, k - 1)>> \o Split(SubSeq(s, k + 1, Len(s)), sep)

\* sep.join(parts)
RECURSIVE Join(_, _)
Join(parts, sep) ==
  IF Len(parts) = 0 THEN <<>>
  ELSE IF Len(parts) = 1 THEN parts[1]
  ELSE parts[1] \o sep \o Join(Tail(parts), sep)

\* s.strip()
Strip(s) ==
  IF \A i \in 1..Len(s) : IsSpace(s[i]) THEN <<>>
  ELSE LET a == CHOOSE i \in 1..Len(s) :
                  ~IsSpace(s[i]) /\ \A j \in 1..(i - 1) : IsSpace(s[j])
           b == CHOOSE i \in 1..Len(s) :
                  ~IsSpace(s[i]) /\ \A j \in (i + 1)..Len(s) : IsSpace(s[j])
       IN SubSeq(s, a, b)

\* ''.join(filter(str.isdigit, s))
FilterDigits(s) == SelectSeq(s, IsDigit)

\* The value of a non-empty string of decimal digits.
RECURSIVE DigitsValue(_)
DigitsValue(ds) ==
  IF Len(ds) = 0 THEN 0
  ELSE 10 * DigitsValue(SubSeq(ds, 1, Len(ds) - 1)) + DigitVal(ds[Len(ds)])

\* int(s) for s holding only digits: [ok |-> FALSE] stands for ValueError.
ParseInt(s) ==
  IF Len(s) = 0 \/ \E i \in 1..Len(s) : ~IsDigit(s[i])
  THEN [ok |-> FALSE, val |-> 0]
  ELSE [ok |-> TRUE, val |-> DigitsValue(s)]

\* str(n) for a natural number n.
RECURSIVE Dec(_)
Dec(n) == IF n < 10 THEN <<Digits[n + 1]>> ELSE Dec(n \div 10) \o <<Digits[(n % 10) + 1]>>

\* n printed with at least w digits, zero-padded ("%02d", "%04d").
RECURSIVE Pad(_, _)
Pad(n, w) == IF Len(Dec(n)) >= w THEN Dec(n) ELSE <<"0">> \o Pad(n, w - 1)

\* s < t for strings: lexicographic on code points.
RECURSIVE StrLess(_, _)
StrLess(s, t) ==
  IF Len(t) = 0 THEN FALSE
  ELSE IF Len(s) = 0 THEN TRUE
  ELSE IF s[1] # t[1] THEN Ord(s[1]) < Ord(t[1])
  ELSE StrLess(Tail(s), Tail(t))

(***************************************************************************)
(* datetime: the proleptic Gregorian calendar of Python's datetime module.  *)
(* A date is [year, month, day]; a datetime adds hour, minute, second.      *)
(***************************************************************************)

IsLeap(y) == y % 4 = 0 /\ (y % 100 # 0 \/ y % 400 = 0)

DaysInMonth(y, m) ==
  IF m = 2 THEN (IF IsLeap(y) THEN 29 ELSE 28)
  ELSE IF m \in {4, 6, 9, 11} THEN 30 ELSE 31

\* Days in the years before year y.
DaysBeforeYear(y) ==
  LET p == y - 1 IN p * 365 + (p \div 4) - (p \div 100) + (p \div 400)

\* Days in the months before month m of a year that is not a leap year.
DaysBeforeMonthTable == <<0, 31, 59, 90, 120, 151, 181, 212, 243, 273, 304, 334>>

\* Days in year y before the first day of month m.
DaysBeforeMonth(y, m) ==
  DaysBeforeMonthTable[m] + (IF m > 2 /\ IsLeap(y) THEN 1 ELSE 0)

\* date.toordinal(): 0001-01-01 is day 1.
ToOrdinal(d) == DaysBeforeYear(d.year) + DaysBeforeMonth(d.year, d.month) + d.day

\* date.fromordinal(n), by the cycles of 400, 100, 4 and 1 years.
FromOrdinal(n) ==
  LET n0 == n - 1
      n400 == n0 \div 146097
      r400 == n0 % 146097
      n100 == r400 \div 36524
      r100 == r400 % 36524
      n4 == r100 \div 1461
      r4 == r100 % 1461
      n1 == r4 \div 365
      r1 == r4 % 365
      y == n400 * 400 + 1 + n100 * 100 + n4 * 4 + n1
  IN IF n1 = 4 \/ n100 = 4
     THEN [year |-> y - 1, month |-> 12, day |-> 31]
     ELSE LET guess == (r1 + 50) \div 32
              m == IF DaysBeforeMonth(y, guess) > r1 THEN guess - 1 ELSE guess
          IN [year |-> y, month |-> m, day |-> r1 - DaysBeforeMonth(y, m) + 1]

\* x.weekday(): Monday is 0, Sunday is 6.
Weekday(x) == (ToOrdinal(x) + 6) % 7

\* x.date()
DateOf(x) == [year |-> x.year, month |-> x.month, day |-> x.day]

\* x - timedelta(days=n), for a datetime x: the time of day is kept.
MinusDays(x, n) ==
  LET d == FromOrdinal(ToOrdinal(x) - n)
  IN [x EXCEPT !.year = d.year, !.month = d.month, !.day = d.day]

\* x - timedelta(days=x.day) in place of x.replace(day=n): the last day of
\* the month before.
ReplaceDay_timedelta(x, n) == MinusDays(x, x.day)

\* x.replace(day=n)
ReplaceDay(x, n) == [x EXCEPT !.day = n]

\* d1 < d2 for dates.
DateLess(d1, d2) ==
  \/ d1.year < d2.year
  \/ d1.year = d2.year /\ d1.month < d2.month
  \/ d1.year = d2.year /\ d1.month = d2.month /\ d1.day < d2.day

\* str(d) for a date: ISO format YYYY-MM-DD.
DateStr(d) == Pad(d.year, 4) \o <<"-">> \o Pad(d.month, 2) \o <<"-">> \o Pad(d.day, 2)

\* A field of one to `w` digits (strptime's %m, %d, %H, %M, %S take one or two).
IsNumField(s, lo, w) ==
  Len(s) >= lo /\ Len(s) <= w /\ \A i \in 1..Len(s) : IsDigit(s[i])

\* datetime.strptime(s, '%Y-%m-%d %H:%M:%S'); [ok |-> FALSE] stands for ValueError.
Strptime(s) ==
  LET bad == [ok |-> FALSE,
              val |-> [year |-> 0, month |-> 0, day |-> 0,
                       hour |-> 0, minute |-> 0, second |-> 0]]
      words == Split(s, " ")
      parts == SelectSeq(words, LAMBDA w : Len(w) > 0)
  IN IF Len(s) = 0 \/ IsSpace(s[1]) \/ IsSpace(s[Len(s)]) \/ Len(parts) # 2
     THEN bad
     ELSE LET dp == Split(parts[1], "-")
              tp == Split(parts[2], ":")
          IN IF Len(dp) # 3 \/ Len(tp) # 3 THEN bad
             ELSE IF ~(/\ IsNumField(dp[1], 4, 4) /\ IsNumField(dp[2], 1, 2)
                       /\ IsNumField(dp[3], 1, 2) /\ IsNumField(tp[1], 1, 2)
                       /\ IsNumField(tp[2], 1, 2) /\ IsNumField(tp[3], 1, 2))
             THEN bad
             ELSE LET y == DigitsValue(dp[1])
                      mo == DigitsValue(dp[2])
                      d == DigitsValue(dp[3])
                      h == DigitsValue(tp[1])
                      mi == DigitsValue(tp[2])
                      sec == DigitsValue(tp[3])
                  IN IF /\ y >= 1 /\ mo \in 1..12 /\ d >= 1
                        /\ d <= DaysInMonth(y, mo)
                        /\ h <= 23 /\ mi <= 59 /\ sec <= 59
                     THEN [ok |-> TRUE,
                           val |-> [year |-> y, month |-> mo, day |-> d,
                                    hour |-> h, minute |-> mi, second |-> sec]]
                     ELSE bad

(***************************************************************************)
(* The state: the analyzer (class GitAnalyzer), the files it writes, and    *)
(* the part of the environment that differs from run to run.                *)
(***************************************************************************)

VARIABLES
  repo_paths,    \* self.repo_paths: the path patterns the analyzer was given
  listing,       \* the order in which each directory lists its entries
  tzForm,        \* how git log prints the timezone of a timestamp
  repositories,  \* self.repositories: the discovered repository paths, in order
  logFails,      \* the repositories in which `git log` fails
  showFails,     \* the repositories in which `git show` fails
  dayShift,      \* how many days after its base date every commit was made
  h4stat,        \* the stat git shows for commit h4
  stats,         \* self.stats: the CommitStats records collected so far
  df,            \* self.df: the commit table, or None
  ncalls,        \* the number of analyze_repositories calls made
  files,         \* the output files written, by name
  pc,            \* <<>>, or <<k>> inside analyze_repositories, k repositories done
  session_state, \* st.session_state of the dashboard session
  result         \* how the last call ended and what it returned or printed

vars == <<repo_paths, listing, tzForm, repositories, logFails, showFails,
          dayShift, h4stat, stats, df, ncalls, files, pc, session_state, result>>

(***************************************************************************)
(* The environment: the repositories on disk and what git prints for them.  *)
(* Five repositories hold seven commits; repositories A and B share commit  *)
(* h1, the log of C also holds two lines that are no commit, and E has no   *)
(* commit to list.                                                          *)
(***************************************************************************)

RepoIds == {"A", "B", "C", "D", "E"}

Hashes == {"h1", "h2", "h3", "h4", "h5", "h6", "h9"}

DateTime(y, mo, d, h, mi, s) ==
  [year |-> y, month |-> mo, day |-> d, hour |-> h, minute |-> mi, second |-> s]

\* A datetime as git prints it under --date=iso, before the timezone.
DateTimeStr(x) ==
  DateStr(x) \o <<" ">> \o Pad(x.hour, 2) \o <<":">> \o Pad(x.minute, 2)
  \o <<":">> \o Pad(x.second, 2)

Stat(nfiles, ins, del) == [shown |-> TRUE, files |-> nfiles, ins |-> ins, del |-> del]

\* A commit git shows no stat for (a merge, an empty commit).
NoStat == [shown |-> FALSE, files |-> 0, ins |-> 0, del |-> 0]

\* The commit objects: %H and %an of each, its author date and timezone at
\* shift 0, and its stat.
BaseObj(h) ==
  CASE h = "h1" -> [hash |-> <<"h", "1">>, author |-> <<"a", "l", "i", "c", "e">>,
                    at |-> DateTime(2024, 1, 15, 0, 0, 0), tz |-> <<"+", "0", "0", "0", "0">>,
                    stat |-> Stat(1, 10, 2)]
    [] h = "h2" -> [hash |-> <<"h", "2">>, author |-> <<"a", "l", "i", "c", "e">>,
                    at |-> DateTime(2024, 1, 15, 9, 30, 0), tz |-> <<"+", "0", "0", "0", "0">>,
                    stat |-> Stat(2, 10, 2)]
    [] h = "h3" -> [hash |-> <<"h", "3">>, author |-> <<"a", "l", "i", "c", "e">>,
                    at |-> DateTime(2024, 1, 15, 23, 59, 59), tz |-> <<"-", "0", "7", "0", "0">>,
                    stat |-> Stat(1, 10, 2)]
    [] h = "h4" -> [hash |-> <<"h", "4">>, author |-> <<"b", "o", "b">>,
                    at |-> DateTime(2024, 1, 17, 12, 0, 0), tz |-> <<"+", "0", "0", "0", "0">>,
                    stat |-> Stat(1, 5, 0)]
    [] h = "h5" -> [hash |-> <<"h", "5">>, author |-> <<"b", "o", "b">>,
                    at |-> DateTime(2024, 3, 31, 8, 0, 0), tz |-> <<"+", "0", "2", "0", "0">>,
                    stat |-> Stat(1, 0, 4)]
    [] h = "h6" -> [hash |-> <<"h", "6">>, author |-> <<"c", "a", "r", "o", "l">>,
                    at |-> DateTime(2024, 3, 1, 10, 0, 0), tz |-> <<"+", "0", "0", "0", "0">>,
                    stat |-> NoStat]
    [] h = "h9" -> [hash |-> <<"h", "9">>, author |-> <<"e", "r", "i", "n">>,
                    at |-> DateTime(2024, 6, 1, 10, 0, 0), tz |-> <<"-", "0", "7", "0", "0">>,
                    stat |-> Stat(1, 1, 1)]

\* The author date of commit h in this run: dayShift days after its base.
CommitAt(h) ==
  LET at == BaseObj(h).at
      d == FromOrdinal(ToOrdinal(at) + dayShift)
  IN [at EXCEPT !.year = d.year, !.month = d.month, !.day = d.day]

\* The ways a timestamp of the log ends: with the commit's own timezone (as
\* git prints it), with no timezone, or with one fixed offset.
TzForms == {"own", "none", "+0530", "-0700"}

TzSuffix(h) ==
  CASE tzForm = "own" -> <<" ">> \o BaseObj(h).tz
    [] tzForm = "none" -> <<>>
    [] tzForm = "+0530" -> <<" ", "+", "0", "5", "3", "0">>
    [] tzForm = "-0700" -> <<" ", "-", "0", "7", "0", "0">>

\* %ad of commit h under --date=iso.
CommitDate(h) == DateTimeStr(CommitAt(h)) \o TzSuffix(h)

\* The stat of commit h in this run.
CommitStat(h) == IF h = "h4" THEN h4stat ELSE BaseObj(h).stat

\* The commits of each repository, in the order git log lists them.
RepoCommits(r) ==
  CASE r = "A" -> <<"h1", "h2", "h3">>
    [] r = "B" -> <<"h1", "h4">>
    [] r = "C" -> <<"h5", "h6">>
    [] r = "D" -> <<"h9">>
    [] r = "E" -> <<>>

\* Lines of a log that are no well-formed commit line.
RepoJunk(r) ==
  IF r = "C" THEN <<<<"h", "7", "|", "d", "a", "v", "e", "|", "y", "e", "s", "t", "e", "r", "d", "a", "y">>, <<"h", "8", "|", "e", "v", "e">>>> ELSE <<>>

\* One line of `git log --pretty=format:%H|%an|%ad --date=iso`.
LogLine(h) == BaseObj(h).hash \o <<"|">> \o BaseObj(h).author \o <<"|">> \o CommitDate(h)

\* The standard output of git log in repository r: the lines that are no
\* commit come after the first commit and before the others.
GitLogStdout(r) ==
  LET commits == [i \in 1..Len(RepoCommits(r)) |-> LogLine(RepoCommits(r)[i])]
  IN IF Len(commits) = 0 THEN Join(RepoJunk(r), <<"\n">>)
     ELSE Join(<<commits[1]>> \o RepoJunk(r) \o Tail(commits), <<"\n">>)

Plural(word, n) == IF n = 1 THEN word ELSE word \o <<"s">>

\* The summary line git prints under a stat: the insertions part is left out
\* when nothing was inserted and something deleted, and the other way round.
StatSummary(nfiles, ins, del) ==
  <<" ">> \o Dec(nfiles) \o <<" ">> \o Plural(<<"f", "i", "l", "e">>, nfiles) \o <<" ", "c", "h", "a", "n", "g", "e", "d">>
  \o (IF ins > 0 \/ del = 0
      THEN <<",", " ">> \o Dec(ins) \o <<" ">> \o Plural(<<"i", "n", "s", "e", "r", "t", "i", "o", "n">>, ins) \o <<"(", "+", ")">>
      ELSE <<>>)
  \o (IF del > 0 \/ ins = 0
      THEN <<",", " ">> \o Dec(del) \o <<" ">> \o Plural(<<"d", "e", "l", "e", "t", "i", "o", "n">>, del) \o <<"(", "-", ")">>
      ELSE <<>>)

\* The standard output of `git show --stat --format=`: a line for the changed
\* file, then the summary line.
StatOutput(nfiles, ins, del) ==
  <<" ", "a", " ", "|", " ">> \o Dec(ins + del) \o <<" ", "+", "-">> \o <<"\n">>
  \o StatSummary(nfiles, ins, del) \o <<"\n">>

\* The standard output of git show for the commit whose hash is `hash`.
GitShowStdout(hash) ==
  IF \E h \in Hashes : BaseObj(h).hash = hash
  THEN LET st == CommitStat(CHOOSE h \in Hashes : BaseObj(h).hash = hash)
       IN IF st.shown THEN StatOutput(st.files, st.ins, st.del) ELSE <<>>
  ELSE <<>>

(***************************************************************************)
(* The file system, and discovery: glob.glob, os.path, and                  *)
(* _discover_repositories. Paths are strings; the working directory is /w.  *)
(***************************************************************************)

Cwd == <<"/", "w">>

\* The directories and the files on disk, by absolute path. docs is a
\* directory that is no repository; it holds a file and repository D.
DiskDirs ==
  {<<"/">>, <<"/", "w">>, <<"/", "s", "r", "v">>,
   <<"/", "w", "/", "A">>, <<"/", "w", "/", "A", "/", ".", "g", "i", "t">>, <<"/", "w", "/", "B">>, <<"/", "w", "/", "B", "/", ".", "g", "i", "t">>,
   <<"/", "w", "/", "d", "o", "c", "s">>, <<"/", "w", "/", "d", "o", "c", "s", "/", "D">>, <<"/", "w", "/", "d", "o", "c", "s", "/", "D", "/", ".", "g", "i", "t">>,
   <<"/", "s", "r", "v", "/", "C">>, <<"/", "s", "r", "v", "/", "C", "/", ".", "g", "i", "t">>, <<"/", "s", "r", "v", "/", "E">>, <<"/", "s", "r", "v", "/", "E", "/", ".", "g", "i", "t">>}

DiskFiles == {<<"/", "w", "/", "d", "o", "c", "s", "/", "n", "o", "t", "e", "s", ".", "t", "x", "t">>}

\* The absolute path of each repository.
RepoPath(r) ==
  CASE r = "A" -> <<"/", "w", "/", "A">>
    [] r = "B" -> <<"/", "w", "/", "B">>
    [] r = "C" -> <<"/", "s", "r", "v", "/", "C">>
    [] r = "D" -> <<"/", "w", "/", "d", "o", "c", "s", "/", "D">>
    [] r = "E" -> <<"/", "s", "r", "v", "/", "E">>

\* The repository a git command runs in when its cwd is repo_path.
RepoAt(repo_path) == CHOOSE r \in RepoIds : RepoPath(r) = repo_path

\* s.rfind(c) + 1 for a one-character c: 0 when c is not in s.
RFind1(s, c) ==
  IF \A i \in 1..Len(s) : s[i] # c THEN 0
  ELSE CHOOSE i \in 1..Len(s) : s[i] = c /\ \A j \in (i + 1)..Len(s) : s[j] # c

\* s.rstrip('/')
RECURSIVE RStripSlash(_)
RStripSlash(s) ==
  IF Len(s) > 0 /\ s[Len(s)] = "/" THEN RStripSlash(SubSeq(s, 1, Len(s) - 1)) ELSE s

\* os.path.split: <<head, tail>>
PathSplit(p) ==
  LET i == RFind1(p, "/")
      head == SubSeq(p, 1, i)
      tail == SubSeq(p, i + 1, Len(p))
  IN <<IF Len(RStripSlash(head)) > 0 THEN RStripSlash(head) ELSE head, tail>>

\* os.path.join(a, b)
PathJoin(a, b) ==
  IF Len(b) > 0 /\ b[1] = "/" THEN b
  ELSE IF Len(a) = 0 \/ a[Len(a)] = "/" THEN a \o b
  ELSE a \o <<"/">> \o b

\* The loop of os.path.normpath over the components of a path.
RECURSIVE NormComps(_, _, _, _)
NormComps(comps, k, new, initial_slashes) ==
  IF k > Len(comps) THEN new
  ELSE LET comp == comps[k]
       IN IF comp = <<>> \/ comp = <<".">>
          THEN NormComps(comps, k + 1, new, initial_slashes)
          ELSE IF \/ comp # <<".", ".">>
                  \/ (initial_slashes = 0 /\ Len(new) = 0)
                  \/ (Len(new) > 0 /\ new[Len(new)] = <<".", ".">>)
          THEN NormComps(comps, k + 1, Append(new, comp), initial_slashes)
          ELSE IF Len(new) > 0
          THEN NormComps(comps, k + 1, SubSeq(new, 1, Len(new) - 1), initial_slashes)
          ELSE NormComps(comps, k + 1, new, initial_slashes)

\* os.path.normpath
Normpath(path) ==
  IF Len(path) = 0 THEN <<".">>
  ELSE LET initial_slashes ==
             IF path[1] # "/" THEN 0
             ELSE IF Len(path) >= 2 /\ path[2] = "/" /\ ~(Len(path) >= 3 /\ path[3] = "/")
             THEN 2 ELSE 1
           joined == Join(NormComps(Split(path, "/"), 1, <<>>, initial_slashes), <<"/">>)
           out == [i \in 1..initial_slashes |-> "/"] \o joined
       IN IF Len(out) = 0 THEN <<".">> ELSE out

\* os.path.abspath
Abspath(path) ==
  Normpath(IF Len(path) > 0 /\ path[1] = "/" THEN path ELSE PathJoin(Cwd, path))

\* os.path.lexists and os.path.exists (the disk holds no symbolic link); a
\* path that ends in a slash names a directory.
Exists(path) ==
  /\ Len(path) > 0
  /\ \/ Abspath(path) \in DiskDirs
     \/ Abspath(path) \in DiskFiles /\ path[Len(path)] # "/"

\* os.path.isdir
IsDir(path) == Len(path) > 0 /\ Abspath(path) \in DiskDirs

\* The names of the entries of a directory.
Children(dir) ==
  {PathSplit(e)[2] : e \in {d \in (DiskDirs \cup DiskFiles) :
                              PathSplit(d)[1] = dir /\ Len(PathSplit(d)[2]) > 0}}

\* The sequences that list every element of a finite set once.
RECURSIVE Orders(_)
Orders(S) ==
  IF S = {} THEN {<<>>}
  ELSE UNION {{<<x>> \o o : o \in Orders(S \ {x})} : x \in S}

\* os.listdir gives the entries of a directory in an order of the file
\* system's choosing: every order of the working directory and of docs (the
\* other directories are not listed by any pattern of the model).
Listings ==
  {[d \in DiskDirs |->
      IF d = <<"/", "w">> THEN a
      ELSE IF d = <<"/", "w", "/", "d", "o", "c", "s">> THEN b
      ELSE CHOOSE o \in Orders(Children(d)) : TRUE] :
     a \in Orders(Children(<<"/", "w">>)), b \in Orders(Children(<<"/", "w", "/", "d", "o", "c", "s">>))}

\* One listing: every directory in ascending order of code points.
SortedListing ==
  [d \in DiskDirs |->
     IF d = <<"/", "w">> THEN <<<<"A">>, <<"B">>, <<"d", "o", "c", "s">>>>
     ELSE IF d = <<"/", "w", "/", "d", "o", "c", "s">> THEN <<<<"D">>, <<"n", "o", "t", "e", "s", ".", "t", "x", "t">>>>
     ELSE CHOOSE o \in Orders(Children(d)) : TRUE]

\* glob.has_magic
HasMagic(s) == \E i \in 1..Len(s) : s[i] \in {"*", "?", "["}

\* fnmatch.fnmatch for patterns of literal characters, * and ?.
RECURSIVE Fnmatch(_, _)
Fnmatch(name, pat) ==
  IF Len(pat) = 0 THEN Len(name) = 0
  ELSE IF pat[1] = "*"
  THEN Fnmatch(name, Tail(pat)) \/ (Len(name) > 0 /\ Fnmatch(Tail(name), pat))
  ELSE IF pat[1] = "?"
  THEN Len(name) > 0 /\ Fnmatch(Tail(name), Tail(pat))
  ELSE Len(name) > 0 /\ name[1] = pat[1] /\ Fnmatch(Tail(name), Tail(pat))

IsHidden(name) == Len(name) > 0 /\ name[1] = "."

\* glob._glob1: the entries of dirname that match the pattern, in listing
\* order; hidden entries only for a pattern that starts with a dot.
Glob1(dirname, pattern) ==
  LET dir == IF Len(dirname) = 0 THEN <<".">> ELSE dirname
      names == IF IsDir(dir) THEN listing[Abspath(dir)] ELSE <<>>
      shown == IF IsHidden(pattern) THEN names
               ELSE SelectSeq(names, LAMBDA n : ~IsHidden(n))
  IN SelectSeq(shown, LAMBDA n : Fnmatch(n, pattern))

\* glob._glob0: the basename itself when it exists in dirname.
Glob0(dirname, basename) ==
  IF Len(basename) = 0
  THEN (IF IsDir(dirname) THEN <<basename>> ELSE <<>>)
  ELSE (IF Exists(PathJoin(dirname, basename)) THEN <<basename>> ELSE <<>>)

RECURSIVE GlobIn(_, _, _)
RECURSIVE Glob(_)

\* The matches of basename in each directory of dirs, from the k-th on.
GlobIn(dirs, k, basename) ==
  IF k > Len(dirs) THEN <<>>
  ELSE LET names == IF HasMagic(basename) THEN Glob1(dirs[k], basename)
                    ELSE Glob0(dirs[k], basename)
       IN [i \in 1..Len(names) |-> PathJoin(dirs[k], names[i])]
          \o GlobIn(dirs, k + 1, basename)

\* glob.glob(pathname)
Glob(pathname) ==
  LET dirname == PathSplit(pathname)[1]
      basename == PathSplit(pathname)[2]
  IN IF ~HasMagic(pathname)
     THEN (IF Len(basename) > 0
           THEN (IF Exists(pathname) THEN <<pathname>> ELSE <<>>)
           ELSE (IF IsDir(dirname) THEN <<pathname>> ELSE <<>>))
     ELSE IF Len(dirname) = 0
     THEN Glob1(<<>>, basename)
     ELSE GlobIn(IF dirname # pathname /\ HasMagic(dirname) THEN Glob(dirname)
                 ELSE <<dirname>>,
                 1, basename)

\* The loop without the test for .git: every directory is taken for a
\* repository.
RECURSIVE ScanPaths_any_directory(_, _)
ScanPaths_any_directory(expanded_paths, k) ==
  IF k > Len(expanded_paths) THEN [repositories |-> <<>>, warnings |-> <<>>]
  ELSE LET path == expanded_paths[k]
           rest == ScanPaths_any_directory(expanded_paths, k + 1)
       IN IF IsDir(path)
          THEN [rest EXCEPT !.repositories = <<Abspath(path)>> \o @]
          ELSE [rest EXCEPT !.warnings =
                  <<[kind |-> "not a directory", subject |-> path]>> \o @]

\* The body of the loop over the expanded paths of one pattern, from the
\* k-th on: the repositories appended and the warnings printed.
RECURSIVE ScanPaths(_, _)
ScanPaths(expanded_paths, k) ==
  IF k > Len(expanded_paths) THEN [repositories |-> <<>>, warnings |-> <<>>]
  ELSE LET path == expanded_paths[k]
           rest == ScanPaths(expanded_paths, k + 1)
       IN IF IsDir(path)
          THEN (IF Exists(PathJoin(path, <<".", "g", "i", "t">>))
                THEN [rest EXCEPT !.repositories = <<Abspath(path)>> \o @]
                ELSE [rest EXCEPT !.warnings =
                        <<[kind |-> "not a Git repository", subject |-> path]>> \o @])
          ELSE [rest EXCEPT !.warnings =
                  <<[kind |-> "not a directory", subject |-> path]>> \o @]

\* _discover_repositories: the repositories found for the patterns from the
\* k-th on, and the warnings printed on the way.
RECURSIVE _discover_repositories(_, _)
_discover_repositories(paths, k) ==
  IF k > Len(paths) THEN [repositories |-> <<>>, warnings |-> <<>>]
  ELSE LET here == ScanPaths(Glob(paths[k]), 1)
           rest == _discover_repositories(paths, k + 1)
       IN [repositories |-> here.repositories \o rest.repositories,
           warnings |-> here.warnings \o rest.warnings]

(***************************************************************************)
(* The bounds of the model.                                                 *)
(***************************************************************************)

\* The longest list of discovered repositories (a path may be met twice).
MaxRepos == 2

\* The most analyze_repositories calls on one analyzer.
MaxAnalyze == 2

RECURSIVE SeqsUpTo(_, _)
SeqsUpTo(S, n) ==
  IF n = 0 THEN {<<>>}
  ELSE SeqsUpTo(S, n - 1) \cup
       {Append(s, x) : s \in {t \in SeqsUpTo(S, n - 1) : Len(t) = n - 1}, x \in S}

(***************************************************************************)
(* Extraction: _run_git_command, _get_commit_lines, _get_commit_stats.      *)
(***************************************************************************)

\* _run_git_command: the stripped standard output, or "" when git exits
\* non-zero or is missing. A command is [cmd |-> "log"] or
\* [cmd |-> "show", hash |-> ...].
_run_git_command(repo_path, command) ==
  IF command.cmd = "log"
  THEN (IF repo_path \in logFails THEN <<>> ELSE Strip(GitLogStdout(RepoAt(repo_path))))
  ELSE (IF repo_path \in showFails THEN <<>> ELSE Strip(GitShowStdout(command.hash)))

\* int(''.join(filter(str.isdigit, text))) under try/except ValueError: pass.
DigitsOr(text, old) ==
  LET n == ParseInt(FilterDigits(text)) IN IF n.ok THEN n.val ELSE old

\* The body of the `for part in parts` loop, for the parts from k on.
RECURSIVE ScanParts(_, _, _)
ScanParts(parts, k, acc) ==
  IF k > Len(parts) THEN acc
  ELSE LET part == parts[k]
           nxt == IF Contains(part, <<"i", "n", "s", "e", "r", "t", "i", "o", "n">>)
                  THEN <<DigitsOr(part, acc[1]), acc[2]>>
                  ELSE IF Contains(part, <<"d", "e", "l", "e", "t", "i", "o", "n">>)
                  THEN <<acc[1], DigitsOr(part, acc[2])>>
                  ELSE acc
       IN ScanParts(parts, k + 1, nxt)

\* The body of the `for line in diff_stats.split('\n')` loop, from line k on.
RECURSIVE ScanLines(_, _, _)
ScanLines(lines, k, acc) ==
  IF k > Len(lines) THEN acc
  ELSE LET line == lines[k]
           hasIns == Contains(line, <<"i", "n", "s", "e", "r", "t", "i", "o", "n">>)
           hasDel == Contains(line, <<"d", "e", "l", "e", "t", "i", "o", "n">>)
           nxt == IF hasIns /\ hasDel THEN ScanParts(Split(line, ","), 1, acc)
                  ELSE IF hasIns /\ ~hasDel THEN <<DigitsOr(line, acc[1]), acc[2]>>
                  ELSE IF hasDel /\ ~hasIns THEN <<acc[1], DigitsOr(line, acc[2])>>
                  ELSE acc
       IN ScanLines(lines, k + 1, nxt)

\* The parse of _get_commit_lines: <<lines_added, lines_deleted>> from the
\* output of git show.
ParseDiffStats(diff_stats) ==
  IF Len(diff_stats) = 0 THEN <<0, 0>>
  ELSE ScanLines(Split(diff_stats, "\n"), 1, <<0, 0>>)

_get_commit_lines(repo_path, commit_hash) ==
  ParseDiffStats(_run_git_command(repo_path, [cmd |-> "show", hash |-> commit_hash]))

\* The date parse that looks for a timezone only by its plus sign.
ParseCommitDate_plus_only(date_str) ==
  IF Contains(date_str, <<"+">>)
  THEN LET date_parts == Split(date_str, " ")
       IN IF Len(date_parts) >= 3
          THEN Strptime(Join(SubSeq(date_parts, 1, 2), <<" ">>))
          ELSE Strptime(date_str)
  ELSE Strptime(date_str)

\* The date parse of _get_commit_stats: a trailing timezone token is cut off,
\* not applied.
ParseCommitDate(date_str) ==
  IF Contains(date_str, <<"+">>) \/ Count(date_str, "-") > 2
  THEN LET date_parts == Split(date_str, " ")
       IN IF Len(date_parts) >= 3
          THEN Strptime(Join(SubSeq(date_parts, 1, 2), <<" ">>))
          ELSE Strptime(date_str)
  ELSE Strptime(date_str)

\* The line handling that keeps a commit only when git show printed a stat
\* for it: a failed or empty query drops the commit.
ParseLogLine_needs_stat(repo_path, line) ==
  LET parts == Split(line, "|")
      none == [kind |-> "blank", warned |-> FALSE, commit |-> <<>>]
  IN IF Len(Strip(line)) = 0 THEN none
     ELSE IF Len(parts) < 3 THEN [none EXCEPT !.kind = "short"]
     ELSE LET commit_date == ParseCommitDate(parts[3])
          IN IF ~commit_date.ok
             THEN [none EXCEPT !.kind = "baddate", !.warned = TRUE]
             ELSE IF Len(_run_git_command(repo_path, [cmd |-> "show", hash |-> parts[1]])) = 0
             THEN [none EXCEPT !.kind = "nostat"]
             ELSE LET ld == _get_commit_lines(repo_path, parts[1])
                  IN [kind |-> "commit", warned |-> FALSE,
                      commit |-> <<[author |-> parts[2],
                                    date |-> commit_date.val,
                                    commit_hash |-> parts[1],
                                    lines_added |-> ld[1],
                                    lines_deleted |-> ld[2]]>>]

\* One line of the log: the CommitStats it yields, or why it yields none.
ParseLogLine(repo_path, line) ==
  LET parts == Split(line, "|")
      none == [kind |-> "blank", warned |-> FALSE, commit |-> <<>>]
  IN IF Len(Strip(line)) = 0 THEN none
     ELSE IF Len(parts) < 3 THEN [none EXCEPT !.kind = "short"]
     ELSE LET commit_date == ParseCommitDate(parts[3])
          IN IF ~commit_date.ok
             THEN [none EXCEPT !.kind = "baddate", !.warned = TRUE]
             ELSE LET ld == _get_commit_lines(repo_path, parts[1])
                  IN [kind |-> "commit", warned |-> FALSE,
                      commit |-> <<[author |-> parts[2],
                                    date |-> commit_date.val,
                                    commit_hash |-> parts[1],
                                    lines_added |-> ld[1],
                                    lines_deleted |-> ld[2]]>>]

RECURSIVE CollectCommits(_, _, _)
CollectCommits(repo_path, lines, k) ==
  IF k > Len(lines) THEN <<>>
  ELSE ParseLogLine(repo_path, lines[k]).commit \o CollectCommits(repo_path, lines, k + 1)

\* What the handling of one line of the log prints: the warning of an
\* unparseable date, or the error of a failed git show.
LineMessages(repo_path, line) ==
  LET p == ParseLogLine(repo_path, line)
  IN IF p.warned
     THEN <<[kind |-> "Could not parse date", subject |-> Split(line, "|")[1]]>>
     ELSE IF p.kind = "commit" /\ repo_path \in showFails
     THEN <<[kind |-> "Error running git command", subject |-> repo_path]>>
     ELSE <<>>

RECURSIVE CollectMessages(_, _, _)
CollectMessages(repo_path, lines, k) ==
  IF k > Len(lines) THEN <<>>
  ELSE LineMessages(repo_path, lines[k]) \o CollectMessages(repo_path, lines, k + 1)

\* The warnings and errors _get_commit_stats prints for one repository.
CommitStatsMessages(repo_path) ==
  LET commit_log == _run_git_command(repo_path, [cmd |-> "log"])
  IN IF repo_path \in logFails
     THEN <<[kind |-> "Error running git command", subject |-> repo_path]>>
     ELSE IF Len(commit_log) = 0 THEN <<>>
     ELSE CollectMessages(repo_path, Split(commit_log, "\n"), 1)

\* _get_commit_stats: the CommitStats of one repository, in log order.
_get_commit_stats(repo_path) ==
  LET commit_log == _run_git_command(repo_path, [cmd |-> "log"])
  IN IF Len(commit_log) = 0 THEN <<>>
     ELSE CollectCommits(repo_path, Split(commit_log, "\n"), 1)

(***************************************************************************)
(* The commit table: _create_dataframe.                                     *)
(***************************************************************************)

NoDate == [year |-> 0, month |-> 0, day |-> 0]

\* self.df = None
None == [none |-> TRUE, columns |-> <<>>, rows |-> <<>>]

\* pd.DataFrame(): a frame with no columns and no rows.
EmptyFrame == [columns |-> <<>>, rows |-> <<>>]

HasColumn(frame, c) == \E i \in 1..Len(frame.columns) : frame.columns[i] = c

\* The Monday of the week of x, as a date.
WeekStart(x) == DateOf(MinusDays(x, Weekday(x)))

\* drop_duplicates with keep='last': of the rows that share a commit_hash
\* the last is kept.
RECURSIVE drop_duplicates_keep_last(_)
drop_duplicates_keep_last(rows) ==
  IF Len(rows) = 0 THEN <<>>
  ELSE LET rest == drop_duplicates_keep_last(Tail(rows))
       IN IF \E i \in 1..Len(rest) : rest[i].commit_hash = rows[1].commit_hash
          THEN rest
          ELSE <<rows[1]>> \o rest

\* DataFrame.drop_duplicates(subset=['commit_hash']): of the rows that share
\* a commit_hash the first is kept, and the order of the kept rows is theirs.
RECURSIVE drop_duplicates(_)
drop_duplicates(rows) ==
  IF Len(rows) = 0 THEN <<>>
  ELSE LET front == drop_duplicates(SubSeq(rows, 1, Len(rows) - 1))
           last == rows[Len(rows)]
       IN IF \E i \in 1..Len(front) : front[i].commit_hash = last.commit_hash
          THEN front
          ELSE Append(front, last)

\* _create_dataframe without the drop_duplicates step.
_create_dataframe_no_dedup(all_stats) ==
  [none |-> FALSE,
   columns |-> <<"commit_hash", "author", "date", "lines_added",
                 "lines_deleted", "week_start", "net_lines">>,
   rows |-> [i \in 1..Len(all_stats) |->
               [commit_hash |-> all_stats[i].commit_hash,
                author |-> all_stats[i].author,
                date |-> all_stats[i].date,
                lines_added |-> all_stats[i].lines_added,
                lines_deleted |-> all_stats[i].lines_deleted,
                week_start |-> WeekStart(all_stats[i].date),
                net_lines |-> all_stats[i].lines_added - all_stats[i].lines_deleted,
                period_start |-> NoDate]]]

\* _create_dataframe: the table built from self.stats. A frame's column
\* period_start exists only once get_grouped_dataframe has added it.
_create_dataframe(all_stats) ==
  LET commits_data ==
        [i \in 1..Len(all_stats) |->
           [commit_hash |-> all_stats[i].commit_hash,
            author |-> all_stats[i].author,
            date |-> all_stats[i].date,
            lines_added |-> all_stats[i].lines_added,
            lines_deleted |-> all_stats[i].lines_deleted]]
      kept == drop_duplicates(commits_data)
  IN [none |-> FALSE,
      columns |-> <<"commit_hash", "author", "date", "lines_added",
                    "lines_deleted", "week_start", "net_lines">>,
      rows |-> [i \in 1..Len(kept) |->
                  [commit_hash |-> kept[i].commit_hash,
                   author |-> kept[i].author,
                   date |-> kept[i].date,
                   lines_added |-> kept[i].lines_added,
                   lines_deleted |-> kept[i].lines_deleted,
                   week_start |-> WeekStart(kept[i].date),
                   net_lines |-> kept[i].lines_added - kept[i].lines_deleted,
                   period_start |-> NoDate]]]

\* The extraction loop ended by the first repository that yields no record,
\* as when a failure of git left the loop.
RECURSIVE ExtractAll_abort(_, _)
ExtractAll_abort(repos, k) ==
  IF k > Len(repos) THEN <<>>
  ELSE IF Len(_get_commit_stats(repos[k])) = 0 THEN <<>>
  ELSE _get_commit_stats(repos[k]) \o ExtractAll_abort(repos, k + 1)

\* The records of every repository of the list, in list order.
RECURSIVE ExtractAll(_, _)
ExtractAll(repos, k) ==
  IF k > Len(repos) THEN <<>>
  ELSE _get_commit_stats(repos[k]) \o ExtractAll(repos, k + 1)

\* What the extraction of every repository of the list prints.
RECURSIVE ExtractMessages(_, _)
ExtractMessages(repos, k) ==
  IF k > Len(repos) THEN <<>>
  ELSE CommitStatsMessages(repos[k]) \o ExtractMessages(repos, k + 1)

(***************************************************************************)
(* Grouping: get_grouped_dataframe, get_contributor_summary.                *)
(***************************************************************************)

Periods == {"day", "week", "month"}

\* The bucketing with the week counted from isoweekday() (Monday is 1).
PeriodStart_isoweekday(group_by, x) ==
  CASE group_by = "day" -> DateOf(x)
    [] group_by = "week" -> DateOf(MinusDays(x, Weekday(x) + 1))
    [] group_by = "month" -> DateOf(ReplaceDay(x, 1))

\* The value of the period_start column for a commit dated x.
PeriodStart(group_by, x) ==
  CASE group_by = "day" -> DateOf(x)
    [] group_by = "week" -> DateOf(MinusDays(x, Weekday(x)))
    [] group_by = "month" -> DateOf(ReplaceDay(x, 1))

RECURSIVE SumOf(_, _)
SumOf(rows, col) ==
  IF Len(rows) = 0 THEN 0 ELSE rows[1][col] + SumOf(Tail(rows), col)

\* The order of sort_values(['contributor', 'period_start']): the contributor
\* decides first.
KeyLess_contributor_first(k1, k2) ==
  \/ StrLess(k1[2], k2[2])
  \/ k1[2] = k2[2] /\ DateLess(k1[1], k2[1])

\* (p1, c1) < (p2, c2) on (period_start, contributor).
KeyLess(k1, k2) ==
  \/ DateLess(k1[1], k2[1])
  \/ k1[1] = k2[1] /\ StrLess(k1[2], k2[2])

\* A finite set of keys as the ascending sequence.
RECURSIVE SortKeys(_)
SortKeys(S) ==
  IF S = {} THEN <<>>
  ELSE LET m == CHOOSE k \in S : \A o \in S \ {k} : KeyLess(k, o)
       IN <<m>> \o SortKeys(S \ {m})

GroupedColumns == <<"period_start", "contributor", "commits", "lines_added", "lines_deleted">>

RECURSIVE MaxOf(_, _)
MaxOf(rows, col) ==
  IF Len(rows) = 1 THEN rows[1][col]
  ELSE LET m == MaxOf(Tail(rows), col)
       IN IF rows[1][col] > m THEN rows[1][col] ELSE m

\* The grouping with lines_added aggregated by 'max' in place of 'sum'.
GroupByPeriod_max(rows) ==
  LET keys == {<<rows[i].period_start, rows[i].author>> : i \in 1..Len(rows)}
      order == SortKeys(keys)
      of(k) == SelectSeq(rows, LAMBDA r : r.period_start = k[1] /\ r.author = k[2])
  IN [columns |-> GroupedColumns,
      rows |-> [i \in 1..Len(order) |->
                  [period_start |-> order[i][1],
                   contributor |-> order[i][2],
                   commits |-> Len(of(order[i])),
                   lines_added |-> MaxOf(of(order[i]), "lines_added"),
                   lines_deleted |-> SumOf(of(order[i]), "lines_deleted")]]]

\* groupby(['period_start', 'author']).agg(count, sum, sum).reset_index(),
\* renamed and sorted by (period_start, contributor).
GroupByPeriod(rows) ==
  LET keys == {<<rows[i].period_start, rows[i].author>> : i \in 1..Len(rows)}
      order == SortKeys(keys)
      of(k) == SelectSeq(rows, LAMBDA r : r.period_start = k[1] /\ r.author = k[2])
  IN [columns |-> GroupedColumns,
      rows |-> [i \in 1..Len(order) |->
                  [period_start |-> order[i][1],
                   contributor |-> order[i][2],
                   commits |-> Len(of(order[i])),
                   lines_added |-> SumOf(of(order[i]), "lines_added"),
                   lines_deleted |-> SumOf(of(order[i]), "lines_deleted")]]]

\* The column period_start computed only when the frame has none yet: the
\* values of an earlier call are kept, whatever its period was.
WithPeriod_keep_existing(frame, group_by) ==
  IF HasColumn(frame, "period_start") THEN frame
  ELSE [columns |-> Append(frame.columns, "period_start"),
        none |-> frame.none,
        rows |-> [i \in 1..Len(frame.rows) |->
                    [frame.rows[i] EXCEPT !.period_start = PeriodStart(group_by, frame.rows[i].date)]]]

\* self.df with the column period_start set for the period (added when absent).
WithPeriod(frame, group_by) ==
  [frame EXCEPT
     !.columns = IF HasColumn(frame, "period_start") THEN @ ELSE Append(@, "period_start"),
     !.rows = [i \in 1..Len(frame.rows) |->
                 [frame.rows[i] EXCEPT !.period_start = PeriodStart(group_by, frame.rows[i].date)]]]

\* The authors sorted by ascending commit count, as sort_values without
\* ascending=False sorts them.
RECURSIVE SortAuthors_ascending(_, _)
SortAuthors_ascending(S, rows) ==
  IF S = {} THEN <<>>
  ELSE LET n(a) == Len(SelectSeq(rows, LAMBDA r : r.author = a))
           m == CHOOSE a \in S : \A o \in S \ {a} :
                  n(a) < n(o) \/ (n(a) = n(o) /\ StrLess(a, o))
       IN <<m>> \o SortAuthors_ascending(S \ {m}, rows)

\* The authors as the sequence sorted by descending commit count; authors of
\* equal count stay in ascending order of name.
RECURSIVE SortAuthors(_, _)
SortAuthors(S, rows) ==
  IF S = {} THEN <<>>
  ELSE LET n(a) == Len(SelectSeq(rows, LAMBDA r : r.author = a))
           m == CHOOSE a \in S : \A o \in S \ {a} :
                  n(a) > n(o) \/ (n(a) = n(o) /\ StrLess(a, o))
       IN <<m>> \o SortAuthors(S \ {m}, rows)

\* groupby('author').agg(count, sum, sum).sort_values('commit_hash', ascending=False)
GroupByAuthor(rows) ==
  LET order == SortAuthors({rows[i].author : i \in 1..Len(rows)}, rows)
      of(a) == SelectSeq(rows, LAMBDA r : r.author = a)
  IN [columns |-> <<"author", "commit_hash", "lines_added", "lines_deleted">>,
      rows |-> [i \in 1..Len(order) |->
                  [author |-> order[i],
                   commit_hash |-> Len(of(order[i])),
                   lines_added |-> SumOf(of(order[i]), "lines_added"),
                   lines_deleted |-> SumOf(of(order[i]), "lines_deleted")]]]

\* A test `weekly_data is None` in place of weekly_data.empty: never true
\* of a frame.
Empty_is_none(frame) == FALSE

\* DataFrame.empty: no columns or no rows.
Empty(frame) == Len(frame.columns) = 0 \/ Len(frame.rows) = 0

\* The call that clears period_start before it looks at the period: an
\* invalid period raises with the column of the earlier call wiped.
GroupedDataframe_clear_then_raise(self_df, group_by) ==
  IF self_df.none
  THEN [df |-> self_df, outcome |-> "return", exc |-> "", frame |-> EmptyFrame]
  ELSE IF group_by \notin Periods
  THEN [df |-> [self_df EXCEPT
                  !.rows = [i \in 1..Len(self_df.rows) |->
                              [self_df.rows[i] EXCEPT !.period_start = NoDate]]],
        outcome |-> "raise", exc |-> "ValueError", frame |-> EmptyFrame]
  ELSE LET d == WithPeriod(self_df, group_by)
       IN [df |-> d, outcome |-> "return", exc |-> "", frame |-> GroupByPeriod(d.rows)]

\* get_grouped_dataframe on an analyzer whose table is self_df: the table it
\* leaves in self.df, how the call ends and the frame it returns.
GroupedDataframe(self_df, group_by) ==
  IF self_df.none
  THEN [df |-> self_df, outcome |-> "return", exc |-> "", frame |-> EmptyFrame]
  ELSE IF group_by \notin Periods
  THEN [df |-> self_df, outcome |-> "raise", exc |-> "ValueError", frame |-> EmptyFrame]
  ELSE LET d == WithPeriod(self_df, group_by)
       IN [df |-> d, outcome |-> "return", exc |-> "", frame |-> GroupByPeriod(d.rows)]

\* get_contributor_summary on an analyzer whose table is self_df.
ContributorSummary(self_df) ==
  IF self_df.none THEN EmptyFrame ELSE GroupByAuthor(self_df.rows)

FirstRows(s, n) == SubSeq(s, 1, IF Len(s) < n THEN Len(s) ELSE n)

\* sort_values(['period_start', 'commits'], ascending=[False, False]) on rows
\* whose period_start is a string; rows equal on both keep their order.
RECURSIVE SortDisplay(_, _)
SortDisplay(rows, left) ==
  IF left = {} THEN <<>>
  ELSE LET before(i, j) ==
             \/ StrLess(rows[j].period_start, rows[i].period_start)
             \/ /\ rows[i].period_start = rows[j].period_start
                /\ \/ rows[i].commits > rows[j].commits
                   \/ rows[i].commits = rows[j].commits /\ i < j
           m == CHOOSE i \in left : \A j \in left \ {i} : before(i, j)
       IN <<rows[m]>> \o SortDisplay(rows, left \ {m})

\* What print_summary prints for a table self_df whose period_start column
\* holds the weeks: the totals, the top contributors, the weekly breakdown.
SummaryText(self_df, weekly_data) ==
  LET total_lines_added == SumOf(self_df.rows, "lines_added")
      total_lines_deleted == SumOf(self_df.rows, "lines_deleted")
      weeks == {self_df.rows[i].week_start : i \in 1..Len(self_df.rows)}
      recent_weeks == {w \in weeks : Cardinality({v \in weeks : DateLess(w, v)}) < 10}
      recent_data == SelectSeq(weekly_data.rows, LAMBDA r : r.period_start \in recent_weeks)
      display_data == [i \in 1..Len(recent_data) |->
                         [recent_data[i] EXCEPT !.period_start = DateStr(@)]]
  IN [total_commits |-> Len(self_df.rows),
      total_lines_added |-> total_lines_added,
      total_lines_deleted |-> total_lines_deleted,
      net_lines |-> total_lines_added - total_lines_deleted,
      top |-> FirstRows(GroupByAuthor(self_df.rows).rows, 10),
      weekly |-> IF Empty(weekly_data) THEN <<>>
                 ELSE FirstRows(SortDisplay(display_data, 1..Len(display_data)), 20)]

(***************************************************************************)
(* The state after construction, and the calls on the analyzer.             *)
(***************************************************************************)

OutFiles == {"stats.json", "stats.csv"}

NoFile == [exists |-> FALSE, header |-> <<>>, records |-> <<>>]

\* The record of a call: its name and argument, whether it returned or
\* raised, the message it printed in place of a result, what it returned,
\* the warnings and errors it printed, and the exit status when the call is
\* the command line's main.
Returned(op, arg, frame) ==
  [op |-> op, arg |-> arg, outcome |-> "return", exc |-> "", signal |-> "",
   frame |-> frame, summary |-> <<>>, warnings |-> <<>>, exit |-> <<>>]

Raised(op, arg, exc) ==
  [op |-> op, arg |-> arg, outcome |-> "raise", exc |-> exc, signal |-> "",
   frame |-> EmptyFrame, summary |-> <<>>, warnings |-> <<>>, exit |-> <<>>]

Signalled(op, arg, signal) ==
  [op |-> op, arg |-> arg, outcome |-> "return", exc |-> "", signal |-> signal,
   frame |-> EmptyFrame, summary |-> <<>>, warnings |-> <<>>, exit |-> <<>>]

AtMostOne(S) == {{}} \cup {{x} : x \in S}

Listed(repos) == {repos[k] : k \in 1..Len(repos)}

\* st.session_state of a browser session that has run nothing yet: no key.
NoSession == [keys |-> {}, analysis_complete |-> FALSE, available_contributors |-> <<>>]

\* A new GitAnalyzer: nothing collected, no table, no file written; no
\* dashboard session has stored anything.
InitAnalyzer ==
  /\ session_state = NoSession
  /\ stats = <<>>
  /\ df = None
  /\ ncalls = 0
  /\ files = [f \in OutFiles |-> NoFile]
  /\ pc = <<>>
  /\ result = [Returned("__init__", "", EmptyFrame) EXCEPT
                 !.warnings = _discover_repositories(repo_paths, 1).warnings]

\* Paths of repositories A, B and C: two relative and one absolute.
RepoArgs == {<<"A">>, <<"B">>, <<"/", "s", "r", "v", "/", "C">>}

\* The analyzer is given any list of up to MaxRepos paths of repositories.
\* Which git invocation fails is fixed for the run: at most one kind, in one
\* repository of the list.
Init ==
  /\ repo_paths \in SeqsUpTo(RepoArgs, MaxRepos)
  /\ listing = SortedListing
  /\ tzForm = "own"
  /\ repositories = _discover_repositories(repo_paths, 1).repositories
  /\ logFails \in AtMostOne(Listed(repositories))
  /\ showFails \in AtMostOne(Listed(repositories))
  /\ ~(logFails # {} /\ showFails # {})
  /\ dayShift = 0
  /\ h4stat = BaseObj("h4").stat
  /\ InitAnalyzer

env == <<repo_paths, listing, tzForm, repositories, logFails, showFails,
         dayShift, h4stat>>

\* analyze_repositories: extend self.stats by the records of every
\* repository in order, then rebuild the table when there are records.
analyze_repositories ==
  /\ ncalls < MaxAnalyze
  /\ ncalls' = ncalls + 1
  /\ stats' = stats \o ExtractAll(repositories, 1)
  /\ df' = IF Len(stats') > 0 THEN _create_dataframe(stats') ELSE df
  /\ result' = [Returned("analyze_repositories", "", EmptyFrame) EXCEPT
                  !.warnings = ExtractMessages(repositories, 1)]
  /\ UNCHANGED <<env, session_state, pc, files>>

get_grouped_dataframe(group_by) ==
  LET g == GroupedDataframe(df, group_by)
  IN /\ df' = g.df
     /\ result' = IF g.outcome = "raise"
                  THEN Raised("get_grouped_dataframe", group_by, g.exc)
                  ELSE Returned("get_grouped_dataframe", group_by, g.frame)
     /\ UNCHANGED <<env, session_state, pc, stats, ncalls, files>>

get_weekly_dataframe ==
  LET g == GroupedDataframe(df, "week")
  IN /\ df' = g.df
     /\ result' = Returned("get_weekly_dataframe", "", g.frame)
     /\ UNCHANGED <<env, session_state, pc, stats, ncalls, files>>

\* export_to_json: the frame of get_weekly_dataframe has no column
\* week_start, so reading it raises KeyError before the file is opened.
export_to_json(output_file) ==
  LET g == GroupedDataframe(df, "week")
      weekly_data == g.frame
  IN /\ df' = g.df
     /\ IF Empty(weekly_data)
        THEN /\ result' = Signalled("export_to_json", output_file, "No data to export")
             /\ UNCHANGED files
        ELSE IF ~HasColumn(weekly_data, "week_start")
        THEN /\ result' = Raised("export_to_json", output_file, "KeyError")
             /\ UNCHANGED files
        ELSE /\ files' = [files EXCEPT ![output_file] =
                            [exists |-> TRUE, header |-> weekly_data.columns,
                             records |-> weekly_data.rows]]
             /\ result' = Returned("export_to_json", output_file, EmptyFrame)
     /\ UNCHANGED <<env, session_state, pc, stats, ncalls>>

CsvHeader == <<"Week Start", "Contributor", "Commits", "Lines Added", "Lines Deleted">>

\* export_to_csv: the weekly rows under the renamed columns, the week as text.
export_to_csv(output_file) ==
  LET g == GroupedDataframe(df, "week")
      weekly_data == g.frame
  IN /\ df' = g.df
     /\ IF Empty(weekly_data)
        THEN /\ result' = Signalled("export_to_csv", output_file, "No data to export")
             /\ UNCHANGED files
        ELSE /\ files' = [files EXCEPT ![output_file] =
                            [exists |-> TRUE, header |-> CsvHeader,
                             records |-> [i \in 1..Len(weekly_data.rows) |->
                                            [weekly_data.rows[i] EXCEPT
                                               !.period_start = DateStr(@)]]]]
             /\ result' = Returned("export_to_csv", output_file, EmptyFrame)
     /\ UNCHANGED <<env, session_state, pc, stats, ncalls>>

print_summary ==
  IF df.none
  THEN /\ result' = Signalled("print_summary", "", "No statistics available")
       /\ UNCHANGED <<env, session_state, pc, stats, df, ncalls, files>>
  ELSE LET g == GroupedDataframe(df, "week")
       IN /\ df' = g.df
          /\ result' = [Returned("print_summary", "", EmptyFrame) EXCEPT
                          !.summary = <<SummaryText(g.df, g.frame)>>]
          /\ UNCHANGED <<env, session_state, pc, stats, ncalls, files>>

get_dataframe ==
  /\ result' = Returned("get_dataframe", "",
                        IF df.none THEN EmptyFrame
                        ELSE [columns |-> df.columns, rows |-> df.rows])
  /\ UNCHANGED <<env, session_state, pc, stats, df, ncalls, files>>

get_contributor_summary ==
  /\ result' = Returned("get_contributor_summary", "", ContributorSummary(df))
  /\ UNCHANGED <<env, session_state, pc, stats, df, ncalls, files>>

(***************************************************************************)
(* The command line (cli.py, main), from the construction of the analyzer   *)
(* on: the options are those the argument loop has parsed.                  *)
(***************************************************************************)

\* A test that is never true, in place of `not analyzer.repositories`.
NoRepositories_never(repos) == FALSE

\* `not analyzer.repositories`
NoRepositories(repos) == Len(repos) = 0

\* The ways `streamlit run` ends: it returns, it exits non-zero, the user
\* interrupts it, or there is no streamlit to run.
StreamlitOutcomes == {"returns", "CalledProcessError", "KeyboardInterrupt", "FileNotFoundError"}

\* The record of a run of main: the options it ran with, what it printed in
\* place of a result, the exception that ended it, and its exit status.
MainResult(options, outcome, exc, signal, exit) ==
  [Returned("main", "", EmptyFrame) EXCEPT
     !.outcome = outcome, !.exc = exc, !.signal = signal, !.exit = <<exit>>]
  @@ [options |-> options]

\* What export_to_csv writes for the frame weekly_data.
CsvFile(weekly_data) ==
  [exists |-> TRUE, header |-> CsvHeader,
   records |-> [i \in 1..Len(weekly_data.rows) |->
                  [weekly_data.rows[i] EXCEPT !.period_start = DateStr(@)]]]

\* The end of main, from the dashboard on: self.df is df3 and the exports
\* have printed no_data.
MainEnd(options, messages, df3, no_data) ==
  LET summarise == options.show_summary
                   \/ (/\ Len(options.json_file) = 0
                       /\ Len(options.csv_file) = 0
                       /\ ~options.launch_graph)
  IN IF options.launch_graph /\ options.streamlit # "returns"
     THEN /\ df' = df3
          /\ result' =
               [(CASE options.streamlit = "CalledProcessError" ->
                        MainResult(options, "return", "", no_data, 1)
                   [] options.streamlit = "KeyboardInterrupt" ->
                        MainResult(options, "return", "", no_data, 0)
                   [] options.streamlit = "FileNotFoundError" ->
                        MainResult(options, "raise", "FileNotFoundError", no_data, 1))
                  EXCEPT !.warnings = messages]
     ELSE IF summarise /\ ~df3.none
     THEN \E s \in {GroupedDataframe(df3, "week")} :
            /\ df' = s.df
            /\ result' = [MainResult(options, "return", "", no_data, 0)
                            EXCEPT !.warnings = messages,
                                   !.summary = <<SummaryText(s.df, s.frame)>>]
     ELSE /\ df' = df3
          /\ result' = [MainResult(options, "return", "",
                                   IF summarise THEN "No statistics available"
                                   ELSE no_data, 0)
                          EXCEPT !.warnings = messages]

\* main on a new analyzer. json_file and csv_file are <<>> when the option
\* is absent and <<name>> when it is given. Each call main makes works on
\* the table the call before it left.
main(json_file, csv_file, show_summary, launch_graph, streamlit) ==
  LET options == [json_file |-> json_file, csv_file |-> csv_file,
                  show_summary |-> show_summary, launch_graph |-> launch_graph,
                  streamlit |-> streamlit]
  IN /\ ncalls = 0
     /\ result.op = "__init__"
     /\ Len(repo_paths) > 0
     /\ IF NoRepositories(repositories)
        THEN /\ result' = MainResult(options, "return", "",
                                     "No valid Git repositories found", 1)
             /\ UNCHANGED <<stats, df, ncalls, files>>
        ELSE \E stats1 \in {stats \o ExtractAll(repositories, 1)},
                messages \in {ExtractMessages(repositories, 1)} :
             \E df1 \in {IF Len(stats1) > 0 THEN _create_dataframe(stats1) ELSE df} :
             \E j \in {IF Len(json_file) > 0 THEN GroupedDataframe(df1, "week")
                       ELSE [df |-> df1, outcome |-> "return", exc |-> "",
                             frame |-> EmptyFrame]} :
               /\ ncalls' = ncalls + 1
               /\ stats' = stats1
               /\ IF Len(json_file) > 0 /\ ~Empty(j.frame)
                     /\ ~HasColumn(j.frame, "week_start")
                  THEN /\ df' = j.df
                       /\ files' = files
                       /\ result' = [MainResult(options, "raise", "KeyError", "", 1)
                                       EXCEPT !.warnings = messages]
                  ELSE IF Len(csv_file) > 0
                  THEN \E c \in {GroupedDataframe(j.df, "week")} :
                         /\ files' = IF Empty(c.frame) THEN files
                                     ELSE [files EXCEPT ![csv_file[1]] = CsvFile(c.frame)]
                         /\ MainEnd(options, messages, c.df,
                                    IF Empty(c.frame) \/ Len(json_file) > 0
                                    THEN "No data to export" ELSE "")
                  ELSE /\ files' = files
                       /\ MainEnd(options, messages, j.df,
                                  IF Len(json_file) > 0 THEN "No data to export" ELSE "")
     /\ UNCHANGED <<env, session_state, pc>>

\* The grouping periods a caller may pass: the three valid ones and one not.
GroupByArgs == Periods \cup {"quarter"}

Next ==
  \/ analyze_repositories
  \/ \E group_by \in GroupByArgs : get_grouped_dataframe(group_by)
  \/ get_weekly_dataframe
  \/ export_to_json("stats.json")
  \/ export_to_csv("stats.csv")
  \/ print_summary
  \/ get_dataframe
  \/ get_contributor_summary

Spec == Init /\ [][Next]_vars

(***************************************************************************)
(* Two more specifications of the same analyzer, over other inputs.         *)
(*                                                                         *)
(* SpecLines: repository B alone, where commit h4 has any stat of up to     *)
(* MaxFiles files and MaxLines inserted and deleted lines, or none.         *)
(* SpecDates: repositories B and C, every commit made up to MaxShift days   *)
(* after its base date, so that each falls on every day of the week.        *)
(***************************************************************************)

MaxFiles == 2

MaxLines == 10

MaxShift == 13

InitLines ==
  /\ repo_paths = <<<<"B">>>>
  /\ listing = SortedListing
  /\ tzForm = "own"
  /\ repositories = _discover_repositories(repo_paths, 1).repositories
  /\ logFails = {}
  /\ showFails = {}
  /\ dayShift = 0
  /\ h4stat \in {NoStat} \cup
                {Stat(f, i, d) : f \in 1..MaxFiles, i \in 0..MaxLines, d \in 0..MaxLines}
  /\ InitAnalyzer

NextLines ==
  \/ analyze_repositories
  \/ get_dataframe

SpecLines == InitLines /\ [][NextLines]_vars

InitDates ==
  /\ repo_paths = <<<<"B">>, <<"/", "s", "r", "v", "/", "C">>>>
  /\ listing = SortedListing
  /\ tzForm = "own"
  /\ repositories = _discover_repositories(repo_paths, 1).repositories
  /\ logFails = {}
  /\ showFails = {}
  /\ dayShift \in 0..MaxShift
  /\ h4stat = BaseObj("h4").stat
  /\ InitAnalyzer

SpecDates == InitDates /\ [][Next]_vars

\* SpecStamps: repositories A, C and D, every commit made up to MaxShift days
\* after its base date, the timestamps of the log printed in each form.
InitStamps ==
  /\ repo_paths = <<<<"A">>, <<"/", "s", "r", "v", "/", "C">>, <<"d", "o", "c", "s", "/", "D">>>>
  /\ listing = SortedListing
  /\ tzForm \in TzForms
  /\ repositories = _discover_repositories(repo_paths, 1).repositories
  /\ logFails = {}
  /\ showFails = {}
  /\ dayShift \in 0..MaxShift
  /\ h4stat = BaseObj("h4").stat
  /\ InitAnalyzer

SpecStamps == InitStamps /\ [][NextLines]_vars

\* SpecSteps: analyze_repositories taken one step of its body at a time: the
\* entry, one turn of the loop over self.repositories, and the statements
\* after the loop. Between two calls the table may be grouped.
analyze_begin ==
  /\ pc = <<>>
  /\ ncalls < MaxAnalyze
  /\ pc' = <<0>>
  /\ UNCHANGED <<env, session_state, stats, df, ncalls, files, result>>

\* A turn of the loop that also rebuilds the table, as when
\* _create_dataframe is called inside the loop.
analyze_extract_and_ingest ==
  /\ Len(pc) = 1
  /\ pc[1] < Len(repositories)
  /\ stats' = stats \o _get_commit_stats(repositories[pc[1] + 1])
  /\ df' = IF Len(stats') > 0 THEN _create_dataframe(stats') ELSE df
  /\ pc' = <<pc[1] + 1>>
  /\ UNCHANGED <<env, session_state, ncalls, files, result>>

\* One turn of `for repo_path in self.repositories`.
analyze_extract ==
  /\ Len(pc) = 1
  /\ pc[1] < Len(repositories)
  /\ stats' = stats \o _get_commit_stats(repositories[pc[1] + 1])
  /\ pc' = <<pc[1] + 1>>
  /\ UNCHANGED <<env, session_state, df, ncalls, files, result>>

\* After the loop: the table is rebuilt when there are records.
analyze_ingest ==
  /\ Len(pc) = 1
  /\ pc[1] = Len(repositories)
  /\ df' = IF Len(stats) > 0 THEN _create_dataframe(stats) ELSE df
  /\ ncalls' = ncalls + 1
  /\ result' = [Returned("analyze_repositories", "", EmptyFrame) EXCEPT
                  !.warnings = ExtractMessages(repositories, 1)]
  /\ pc' = <<>>
  /\ UNCHANGED <<env, session_state, stats, files>>

NextSteps ==
  \/ analyze_begin
  \/ analyze_extract
  \/ analyze_ingest
  \/ pc = <<>> /\ get_grouped_dataframe("week")

SpecSteps == Init /\ [][NextSteps]_vars

\* The directories that the globs among the patterns list.
GlobbedDirs(paths) ==
  {Abspath(IF Len(PathSplit(paths[k])[1]) = 0 THEN <<".">> ELSE PathSplit(paths[k])[1]) :
     k \in {i \in 1..Len(paths) : HasMagic(paths[i])}}

\* SpecDiscover: the analyzer constructed on up to MaxPatterns path patterns:
\* paths of repositories (relative, absolute, and one that climbs through
\* ..), globs that match repositories among other entries, a directory that
\* is no repository, a file, and a path that does not exist. The directories
\* that a glob lists give their entries in any order.
MaxPatterns == 2

PathArgs ==
  {<<"A">>, <<"/", "s", "r", "v", "/", "E">>, <<"d", "o", "c", "s", "/", ".", ".", "/", "B">>, <<"*">>, <<"d", "o", "c", "s", "/", "*">>, <<"d", "o", "c", "s">>,
   <<"d", "o", "c", "s", "/", "n", "o", "t", "e", "s", ".", "t", "x", "t">>, <<"m", "i", "s", "s", "i", "n", "g">>}

InitDiscover ==
  /\ repo_paths \in SeqsUpTo(PathArgs, MaxPatterns)
  /\ listing \in {l \in Listings :
                    \A d \in DiskDirs \ GlobbedDirs(repo_paths) : l[d] = SortedListing[d]}
  /\ tzForm = "own"
  /\ repositories = _discover_repositories(repo_paths, 1).repositories
  /\ logFails = {}
  /\ showFails = {}
  /\ dayShift = 0
  /\ h4stat = BaseObj("h4").stat
  /\ InitAnalyzer

SpecDiscover == InitDiscover /\ [][NextLines]_vars

\* SpecCli: the command line run on up to MaxArgs paths, each a repository
\* with commits, a repository with none, a directory that is no repository
\* or a path that does not exist.
MaxArgs == 2

CliArgs == {<<"A">>, <<"/", "s", "r", "v", "/", "E">>, <<"d", "o", "c", "s">>,
            <<"m", "i", "s", "s", "i", "n", "g">>}

InitCli ==
  /\ repo_paths \in SeqsUpTo(CliArgs, MaxArgs) \ {<<>>}
  /\ listing = SortedListing
  /\ tzForm = "own"
  /\ repositories = _discover_repositories(repo_paths, 1).repositories
  /\ logFails \in AtMostOne(Listed(repositories))
  /\ showFails = {}
  /\ dayShift = 0
  /\ h4stat = BaseObj("h4").stat
  /\ InitAnalyzer

NextCli ==
  \E json_file \in {<<>>, <<"stats.json">>}, csv_file \in {<<>>, <<"stats.csv">>},
     show_summary \in BOOLEAN, launch_graph \in BOOLEAN, streamlit \in StreamlitOutcomes :
    main(json_file, csv_file, show_summary, launch_graph, streamlit)

SpecCli == InitCli /\ [][NextCli]_vars

(***************************************************************************)
(* The dashboard: main of streamlit_app.py, run once per browser event.     *)
(***************************************************************************)

\* The home directory os.path.expanduser puts in place of a leading tilde.
Home == Cwd

\* os.path.expanduser for the forms "~" and "~/...".
ExpandUser(path) ==
  IF Len(path) >= 1 /\ path[1] = "~" /\ (Len(path) = 1 \/ path[2] = "/")
  THEN RStripSlash(Home) \o SubSeq(path, 2, Len(path))
  ELSE path

\* The repository paths read from the text area: its lines, stripped, the
\* blank ones left out, the tilde expanded.
TextAreaPaths(text) ==
  LET lines == Split(Strip(text), "\n")
      kept == SelectSeq(lines, LAMBDA l : Len(Strip(l)) > 0)
  IN [i \in 1..Len(kept) |-> ExpandUser(Strip(kept[i]))]

\* Series.unique().tolist(): the values in order of first appearance.
RECURSIVE Unique(_)
Unique(s) ==
  IF Len(s) = 0 THEN <<>>
  ELSE LET front == Unique(SubSeq(s, 1, Len(s) - 1))
       IN IF \E i \in 1..Len(front) : front[i] = s[Len(s)]
          THEN front ELSE Append(front, s[Len(s)])

\* st.session_state.get('analysis_complete', False)
AnalysisComplete(ss) == "analysis_complete" \in ss.keys /\ ss.analysis_complete

\* The click handler that reads the authors only when there is a table: on
\* an analyzer without one nothing is raised and the flag stays True.
AnalyzeClicked_guarded(ss, analyzer_df) ==
  LET stored == [ss EXCEPT !.keys = @ \cup {"analyzer", "analysis_complete"},
                           !.analysis_complete = TRUE]
  IN IF analyzer_df.none
     THEN [session |-> stored, sidebar |-> <<[kind |-> "success", subject |-> 0]>>]
     ELSE [session |->
             [stored EXCEPT
                !.keys = @ \cup {"available_contributors"},
                !.available_contributors =
                   Unique([i \in 1..Len(analyzer_df.rows) |-> analyzer_df.rows[i].author])],
           sidebar |-> <<[kind |-> "success", subject |-> Len(analyzer_df.rows)]>>]

\* The statements of the button branch after the analysis: store the
\* analyzer, set analysis_complete, read the authors of analyzer.df. On an
\* analyzer without a table the read raises TypeError, and the handler of
\* Exception reports it and sets analysis_complete to False.
AnalyzeClicked(ss, analyzer_df) ==
  LET stored == [ss EXCEPT !.keys = @ \cup {"analyzer", "analysis_complete"},
                           !.analysis_complete = TRUE]
  IN IF analyzer_df.none
     THEN [session |-> [stored EXCEPT !.analysis_complete = FALSE],
           sidebar |-> <<[kind |-> "error", subject |-> "TypeError"]>>]
     ELSE [session |->
             [stored EXCEPT
                !.keys = @ \cup {"available_contributors"},
                !.available_contributors =
                   Unique([i \in 1..Len(analyzer_df.rows) |-> analyzer_df.rows[i].author])],
           sidebar |-> <<[kind |-> "success", subject |-> Len(analyzer_df.rows)]>>]

\* The record of one run of the script: whether the button was clicked, the
\* branch the page ended in, the grouped frame it charts, and the sidebar
\* message of the button branch.
Page(clicked, branch, frame, sidebar) ==
  [Returned("streamlit_app.main", IF clicked THEN "click" ELSE "rerun", frame) EXCEPT
     !.signal = branch, !.warnings = sidebar]

\* The script from the completion check on, for the analyzer table
\* analyzer_df: the branch the page ends in, the frame charted, and the
\* table the calls get_grouped_dataframe and print_summary leave.
Render(ss, analyzer_df, group_by) ==
  IF ~AnalysisComplete(ss)
  THEN [branch |-> "info", frame |-> EmptyFrame, df |-> analyzer_df]
  ELSE IF "analyzer" \notin ss.keys \/ analyzer_df.none
  THEN [branch |-> "error", frame |-> EmptyFrame, df |-> analyzer_df]
  ELSE IF Empty(analyzer_df)
  THEN [branch |-> "warning", frame |-> EmptyFrame, df |-> analyzer_df]
  ELSE LET g == GroupedDataframe(analyzer_df, group_by)
       IN IF Empty(g.frame)
          THEN [branch |-> "warning", frame |-> g.frame, df |-> g.df]
          ELSE [branch |-> "dashboard", frame |-> g.frame,
                df |-> GroupedDataframe(g.df, "week").df]

\* One run of the script. With the button clicked a new GitAnalyzer is made
\* from the text area, analyzes, and replaces the analyzer of the session;
\* without, the session is as the run before left it.
streamlit_app_main(clicked, text_area, group_by) ==
  \E paths \in {IF clicked THEN TextAreaPaths(text_area) ELSE repo_paths} :
  \E repos \in {IF clicked THEN _discover_repositories(paths, 1).repositories
                ELSE repositories} :
  \E all_stats \in {IF clicked THEN ExtractAll(repos, 1) ELSE stats} :
  \E table \in {IF ~clicked THEN df
                ELSE IF Len(all_stats) > 0 THEN _create_dataframe(all_stats)
                ELSE None} :
  \E handled \in {IF clicked THEN AnalyzeClicked(session_state, table)
                  ELSE [session |-> session_state, sidebar |-> <<>>]} :
  \E page \in {Render(handled.session, table, group_by)} :
    /\ repo_paths' = paths
    /\ repositories' = repos
    /\ stats' = all_stats
    /\ ncalls' = IF clicked THEN 1 ELSE ncalls
    /\ session_state' = handled.session
    /\ df' = page.df
    /\ result' = Page(clicked, page.branch, page.frame, handled.sidebar)
    /\ UNCHANGED <<listing, tzForm, logFails, showFails, dayShift, h4stat, pc, files>>

\* What the user may have typed into the text area: nothing, one path, a
\* path in blanks, paths separated by a blank line, paths and globs under
\* the home directory.
TextAreas ==
  {<<>>, <<"A">>, <<" ", "/", "s", "r", "v", "/", "E", " ", "\n">>, <<"A", "\n", "~", "/", "B">>,
   <<"A", "\n", "\n", "/", "s", "r", "v", "/", "E">>, <<"~", "/", "B">>,
   <<"~", "/", "d", "o", "c", "s", "/", "*">>, <<"/", "s", "r", "v", "/", "C", "\n", "*">>}

\* A browser session that has not run the script yet. No analyzer exists:
\* the analyzer variables hold the state of GitAnalyzer([]), which the
\* session does not refer to. git log may fail in repository A or in B.
InitDashboard ==
  /\ repo_paths = <<>>
  /\ listing = SortedListing
  /\ tzForm = "own"
  /\ repositories = <<>>
  /\ logFails \in AtMostOne({RepoPath("A"), RepoPath("B")})
  /\ showFails = {}
  /\ dayShift = 0
  /\ h4stat = BaseObj("h4").stat
  /\ InitAnalyzer

NextDashboard ==
  \E clicked \in BOOLEAN, text_area \in TextAreas, group_by \in Periods :
    streamlit_app_main(clicked, text_area, group_by)

SpecDashboard == InitDashboard /\ [][NextDashboard]_vars

(***************************************************************************)
(* Properties.                                                              *)
(***************************************************************************)

\* The index of the first record of s that carries the hash h.
FirstIndex(s, h) ==
  CHOOSE k \in 1..Len(s) :
    s[k].commit_hash = h /\ \A j \in 1..(k - 1) : s[j].commit_hash # h

SameCommit(row, rec) ==
  /\ row.commit_hash = rec.commit_hash
  /\ row.author = rec.author
  /\ row.date = rec.date
  /\ row.lines_added = rec.lines_added
  /\ row.lines_deleted = rec.lines_deleted

\* C1: once the commit table exists no two of its rows share a commit hash,
\* every collected hash has a row, and the row of a hash is the first record
\* collected with that hash, in repository processing order.
C1_UniqueHashFirstSeen ==
  ~df.none =>
    /\ \A i, j \in 1..Len(df.rows) :
         i # j => df.rows[i].commit_hash # df.rows[j].commit_hash
    /\ \A k \in 1..Len(stats) :
         \E i \in 1..Len(df.rows) : df.rows[i].commit_hash = stats[k].commit_hash
    /\ \A i \in 1..Len(df.rows) :
         /\ \E k \in 1..Len(stats) : stats[k].commit_hash = df.rows[i].commit_hash
         /\ SameCommit(df.rows[i], stats[FirstIndex(stats, df.rows[i].commit_hash)])

\* C1 witness: a table built from records of which two share a hash and
\* differ in their line counts.
C1_Witness ==
  /\ ~df.none
  /\ \E i, j \in 1..Len(stats) :
       /\ i < j
       /\ stats[i].commit_hash = stats[j].commit_hash
       /\ stats[i].lines_added # stats[j].lines_added

\* The records of s that are the first with their hash.
RECURSIVE OncePerHash(_)
OncePerHash(s) ==
  IF Len(s) = 0 THEN <<>>
  ELSE LET front == SubSeq(s, 1, Len(s) - 1)
           last == s[Len(s)]
       IN IF \E j \in 1..Len(front) : front[j].commit_hash = last.commit_hash
          THEN OncePerHash(front)
          ELSE Append(OncePerHash(front), last)

\* The aggregates of a commit table: the totals and the grouped rows of
\* every period.
Aggregates(table) ==
  [commits |-> Len(table.rows),
   lines_added |-> SumOf(table.rows, "lines_added"),
   lines_deleted |-> SumOf(table.rows, "lines_deleted"),
   grouped |-> [p \in Periods |-> GroupedDataframe(table, p).frame.rows]]

C2_AfterIngest ==
  (result.op = "analyze_repositories" /\ ~df.none) =>
    Aggregates(df) = Aggregates(_create_dataframe(OncePerHash(stats)))

\* A step that raises ncalls is a call of analyze_repositories.
C2_Reanalyze ==
  (ncalls' = ncalls + 1 /\ ~df.none) => Aggregates(df') = Aggregates(df)

\* C2: ingesting a commit more than once changes no aggregate. After every
\* analyze_repositories the totals and the grouped rows of every period are
\* those of the collected records taken once per hash, and a further
\* analyze_repositories on unchanged repositories leaves them as they were.
C2_Idempotent == [](C2_AfterIngest) /\ [][C2_Reanalyze]_vars

\* C2 witness: a second analysis has run and the records collected outnumber
\* the rows of the table.
C2_Witness ==
  /\ ncalls = 2
  /\ result.op = "analyze_repositories"
  /\ ~df.none
  /\ Len(stats) > Len(df.rows)

\* C3: for a non-empty table and every period, the commits column of the
\* grouped frame sums to the number of rows of the table and its lines_added
\* and lines_deleted columns sum to the table's totals; the commit counts of
\* the contributor summary sum to the number of rows.
C3_SumsConserved ==
  /\ (/\ result.op \in {"get_grouped_dataframe", "get_weekly_dataframe"}
      /\ result.outcome = "return"
      /\ ~df.none) =>
       /\ SumOf(result.frame.rows, "commits") = Len(df.rows)
       /\ SumOf(result.frame.rows, "lines_added") = SumOf(df.rows, "lines_added")
       /\ SumOf(result.frame.rows, "lines_deleted") = SumOf(df.rows, "lines_deleted")
  /\ (result.op = "get_contributor_summary" /\ ~df.none) =>
       SumOf(result.frame.rows, "commit_hash") = Len(df.rows)

\* C3 witness: a monthly grouping of several rows, one of them of several
\* commits with lines added.
C3_Witness ==
  /\ result.op = "get_grouped_dataframe"
  /\ result.arg = "month"
  /\ ~df.none
  /\ Len(result.frame.rows) >= 2
  /\ \E i \in 1..Len(result.frame.rows) :
       result.frame.rows[i].commits >= 2 /\ result.frame.rows[i].lines_added > 0

\* C4: _get_commit_lines returns the number next to "insertion" and the
\* number next to "deletion" of the stat summary (0 for a word that is
\* absent): the record of commit h4 carries the insertions and deletions of
\* its stat, whatever the number of files changed.
C4_ParsesAdjacentNumbers ==
  \A k \in 1..Len(stats) :
    stats[k].commit_hash = BaseObj("h4").hash =>
      /\ stats[k].lines_added = h4stat.ins
      /\ stats[k].lines_deleted = h4stat.del

\* C5: get_grouped_dataframe with a period outside day, week and month
\* raises ValueError in every state of the analyzer.
C5_InvalidPeriodFails ==
  (result.op = "get_grouped_dataframe" /\ result.arg \notin Periods) =>
    (result.outcome = "raise" /\ result.exc = "ValueError")

\* C6: once commits are ingested, export_to_json returns and the file holds
\* one object per weekly row, with the week as an ISO date string.
C6_JsonExportWrites ==
  (result.op = "export_to_json" /\ ~df.none) =>
    /\ result.outcome = "return"
    /\ files["stats.json"].exists
    /\ files["stats.json"].header = GroupedColumns
    /\ files["stats.json"].records =
         [i \in 1..Len(GroupedDataframe(df, "week").frame.rows) |->
            [GroupedDataframe(df, "week").frame.rows[i] EXCEPT
               !.period_start = DateStr(@)]]

\* C7: repository A (three commits of alice on Monday 2024-01-15, +10/-2
\* each) analyzed before repository B (a commit of A again, and one commit of
\* bob, +5/-0, in the same week) gives the weekly rows alice 3/30/6 and
\* bob 1/5/0, and four commits in all.
C7_EndToEnd ==
  (/\ repositories = <<RepoPath("A"), RepoPath("B")>>
   /\ logFails = {}
   /\ showFails = {}
   /\ ncalls = 1
   /\ result.op = "get_grouped_dataframe"
   /\ result.arg = "week") =>
    /\ Len(df.rows) = 4
    /\ result.frame.rows =
         <<[period_start |-> [year |-> 2024, month |-> 1, day |-> 15],
            contributor |-> BaseObj("h1").author,
            commits |-> 3, lines_added |-> 30, lines_deleted |-> 6],
           [period_start |-> [year |-> 2024, month |-> 1, day |-> 15],
            contributor |-> BaseObj("h4").author,
            commits |-> 1, lines_added |-> 5, lines_deleted |-> 0]>>

\* The hashes of the commits of the repository at repo_path.
HashesOf(repo_path) ==
  {BaseObj(RepoCommits(RepoAt(repo_path))[i]).hash :
     i \in 1..Len(RepoCommits(RepoAt(repo_path)))}

\* The number of commits in the repositories of the list, from the k-th on,
\* whose git log does not fail.
RECURSIVE CommitsListed(_)
CommitsListed(k) ==
  IF k > Len(repositories) THEN 0
  ELSE (IF repositories[k] \in logFails THEN 0
        ELSE Len(RepoCommits(RepoAt(repositories[k]))))
       + CommitsListed(k + 1)

\* C8: a repository whose git log fails contributes no record and
\* analyze_repositories still returns: every call collects exactly the
\* commits of the other repositories of the list, and each of their hashes,
\* before and after the failing repository, is in the table.
C8_FailedLogSkipped ==
  ncalls >= 1 =>
    /\ result.op = "analyze_repositories" => result.outcome = "return"
    /\ Len(stats) = ncalls * CommitsListed(1)
    /\ \A k \in 1..Len(repositories) :
         repositories[k] \notin logFails =>
           \A h \in HashesOf(repositories[k]) :
             /\ ~df.none
             /\ \E i \in 1..Len(df.rows) : df.rows[i].commit_hash = h

\* C8 witness: the log of the first of two repositories failed, and the
\* analysis built a table from the second.
C8_Witness ==
  /\ ncalls >= 1
  /\ Len(repositories) = 2
  /\ repositories[1] \in logFails
  /\ repositories[2] \notin logFails
  /\ ~df.none

\* C9: on an analyzer without a commit table, export_to_json, export_to_csv
\* and print_summary return with their "no data" message, and no output
\* file exists.
C9_NoDataSignal ==
  (result.op \in {"export_to_json", "export_to_csv", "print_summary"} /\ df.none) =>
    /\ result.outcome = "return"
    /\ result.signal \in {"No data to export", "No statistics available"}
    /\ \A f \in OutFiles : ~files[f].exists

\* C9 witness: export_to_csv was called after an analysis that found no commit.
C9_Witness ==
  /\ result.op = "export_to_csv"
  /\ ncalls >= 1
  /\ df.none

\* 2024-01-15 is a Monday: a date is one when it is whole weeks from it.
IsMonday(d) ==
  (ToOrdinal(d) - ToOrdinal([year |-> 2024, month |-> 1, day |-> 15])) % 7 = 0

\* b is the Monday of the week of the datetime x.
MondayOfWeek(b, x) ==
  /\ IsMonday(b)
  /\ ToOrdinal(b) <= ToOrdinal(x)
  /\ ToOrdinal(x) - ToOrdinal(b) <= 6

\* C10: grouped by week, every commit has as period_start the Monday of its
\* week (a Monday, not after the commit's date and at most 6 days before
\* it) and is counted in the row of that Monday; week_start is that Monday
\* too. A commit of Wednesday 2024-01-17 and one of Monday 2024-01-15
\* 00:00:00 both have 2024-01-15.
C10_WeekBucket ==
  /\ ~df.none => \A i \in 1..Len(df.rows) : MondayOfWeek(df.rows[i].week_start, df.rows[i].date)
  /\ (/\ ~df.none
      /\ \/ result.op = "get_grouped_dataframe" /\ result.arg = "week"
         \/ result.op = "get_weekly_dataframe") =>
       \A i \in 1..Len(df.rows) :
         LET x == df.rows[i].date
             b == df.rows[i].period_start
         IN /\ MondayOfWeek(b, x)
            /\ \E j \in 1..Len(result.frame.rows) :
                 /\ result.frame.rows[j].period_start = b
                 /\ result.frame.rows[j].contributor = df.rows[i].author
            /\ DateOf(x) = [year |-> 2024, month |-> 1, day |-> 17] =>
                 b = [year |-> 2024, month |-> 1, day |-> 15]
            /\ x = DateTime(2024, 1, 15, 0, 0, 0) =>
                 b = [year |-> 2024, month |-> 1, day |-> 15]

\* C10 witness: a weekly grouping of a table that holds a commit of Wednesday
\* 2024-01-17, one of Monday 2024-01-15 00:00:00 and one made on a Sunday.
C10_Witness ==
  /\ ~df.none
  /\ result.op = "get_grouped_dataframe"
  /\ result.arg = "week"
  /\ \E i \in 1..Len(df.rows) :
       DateOf(df.rows[i].date) = [year |-> 2024, month |-> 1, day |-> 17]
  /\ \E i \in 1..Len(df.rows) : df.rows[i].date = DateTime(2024, 1, 15, 0, 0, 0)
  /\ \E i \in 1..Len(df.rows) :
       ToOrdinal(df.rows[i].date) - ToOrdinal(df.rows[i].period_start) = 6

\* C11: grouped by month, every commit has as period_start the first day of
\* its own month of its own year (commits of 2024-03-01 and of 2024-03-31
\* both have 2024-03-01), and is counted in the row of that day; grouped by
\* day, period_start is the commit's own date.
C11_MonthDayBucket ==
  (/\ ~df.none
   /\ result.op = "get_grouped_dataframe"
   /\ result.arg \in {"month", "day"}) =>
    \A i \in 1..Len(df.rows) :
      LET x == df.rows[i].date
          b == df.rows[i].period_start
      IN /\ result.arg = "month" =>
              /\ b = [year |-> x.year, month |-> x.month, day |-> 1]
              /\ DateOf(x) \in {[year |-> 2024, month |-> 3, day |-> 1],
                                [year |-> 2024, month |-> 3, day |-> 31]} =>
                   b = [year |-> 2024, month |-> 3, day |-> 1]
         /\ result.arg = "day" =>
              b = [year |-> x.year, month |-> x.month, day |-> x.day]
         /\ \E j \in 1..Len(result.frame.rows) :
              /\ result.frame.rows[j].period_start = b
              /\ result.frame.rows[j].contributor = df.rows[i].author

\* C11 witness: a monthly grouping of a table that holds a commit of
\* 2024-03-01 and one of 2024-03-31.
C11_Witness ==
  /\ ~df.none
  /\ result.op = "get_grouped_dataframe"
  /\ result.arg = "month"
  /\ \E i \in 1..Len(df.rows) :
       DateOf(df.rows[i].date) = [year |-> 2024, month |-> 3, day |-> 1]
  /\ \E i \in 1..Len(df.rows) :
       DateOf(df.rows[i].date) = [year |-> 2024, month |-> 3, day |-> 31]

\* The keys (period_start, author) of the rows of the commit table.
KeysOf(rows) == {<<rows[i].period_start, rows[i].author>> : i \in 1..Len(rows)}

\* C12: for a valid period get_grouped_dataframe returns one row for each
\* pair (period_start, contributor) of the commit table and no other row,
\* and every row comes before the rows of a later period_start and before
\* the rows of the same period_start whose contributor is greater.
C12_OneRowPerKeySorted ==
  (/\ ~df.none
   /\ result.op = "get_grouped_dataframe"
   /\ result.outcome = "return") =>
    LET rows == result.frame.rows
    IN /\ {<<rows[j].period_start, rows[j].contributor>> : j \in 1..Len(rows)}
            = KeysOf(df.rows)
       /\ Len(rows) = Cardinality(KeysOf(df.rows))
       /\ \A i, j \in 1..Len(rows) :
            i < j =>
              \/ ToOrdinal(rows[i].period_start) < ToOrdinal(rows[j].period_start)
              \/ /\ rows[i].period_start = rows[j].period_start
                 /\ StrLess(rows[i].contributor, rows[j].contributor)

\* C12 witness: a grouping in which two contributors share a period_start,
\* a contributor has rows in two periods, and a row precedes one whose
\* contributor is smaller.
C12_Witness ==
  /\ ~df.none
  /\ result.op = "get_grouped_dataframe"
  /\ result.outcome = "return"
  /\ \E i, j \in 1..Len(result.frame.rows) :
       /\ i < j
       /\ result.frame.rows[i].contributor = result.frame.rows[j].contributor
  /\ \E i, j \in 1..Len(result.frame.rows) :
       /\ i < j
       /\ result.frame.rows[i].period_start = result.frame.rows[j].period_start
  /\ \E i, j \in 1..Len(result.frame.rows) :
       /\ i < j
       /\ StrLess(result.frame.rows[j].contributor, result.frame.rows[i].contributor)

\* The commits of the repositories of the list.
ListedCommits ==
  UNION {{RepoCommits(RepoAt(repositories[k]))[i] :
            i \in 1..Len(RepoCommits(RepoAt(repositories[k])))} :
           k \in 1..Len(repositories)}

\* C13: a timezone at the end of a log timestamp is cut off and not
\* applied. Whether the log prints a timestamp bare or followed by an
\* offset, the record of the commit stores the date and time as printed:
\* "2024-06-01 10:00:00 -0700" and "2024-06-01 10:00:00" both store
\* 2024-06-01 10:00:00.
C13_OffsetDiscarded ==
  ncalls >= 1 =>
    \A h \in ListedCommits :
      /\ \E k \in 1..Len(stats) : stats[k].commit_hash = BaseObj(h).hash
      /\ \A k \in 1..Len(stats) :
           stats[k].commit_hash = BaseObj(h).hash =>
             /\ stats[k].date = CommitAt(h)
             /\ (h = "h9" /\ dayShift = 0) =>
                  stats[k].date = DateTime(2024, 6, 1, 10, 0, 0)

\* C13 witness: the log printed "2024-06-01 10:00:00 -0700" for a commit and
\* the commit has a record.
C13_Witness ==
  /\ ncalls >= 1
  /\ tzForm = "-0700"
  /\ dayShift = 0
  /\ \E k \in 1..Len(stats) : stats[k].commit_hash = BaseObj("h9").hash

\* The first '|'-separated field of a line.
FirstField(line) == Split(line, "|")[1]

\* C14: a line of the log that is not blank and does not parse (too few
\* fields, or a date that is no date) yields no record, is warned about,
\* and the lines after it are still parsed: after an analysis of repository
\* C, whose log holds two such lines between its two commits, both commits
\* have a record, neither line has one, and a warning names each line.
C14_BadLinesWarned ==
  (/\ result.op = "analyze_repositories"
   /\ \E k \in 1..Len(repositories) : repositories[k] = RepoPath("C")
   /\ RepoPath("C") \notin logFails) =>
    /\ \A h \in HashesOf(RepoPath("C")) :
         \E k \in 1..Len(stats) : stats[k].commit_hash = h
    /\ \A j \in 1..Len(RepoJunk("C")) :
         /\ \A k \in 1..Len(stats) : stats[k].commit_hash # FirstField(RepoJunk("C")[j])
         /\ \E w \in 1..Len(result.warnings) :
              result.warnings[w].subject \in {RepoJunk("C")[j], FirstField(RepoJunk("C")[j])}

\* A pattern of the list matches a repository: one of its glob matches is
\* the directory of a repository on disk.
MatchesRepository(pattern) ==
  \E i \in 1..Len(Glob(pattern)) :
    \E r \in RepoIds : Abspath(Glob(pattern)[i]) = RepoPath(r)

\* The discovery half of C15: self.repositories is empty exactly when no
\* pattern matches a repository.
EmptyIffNoMatch ==
  (Len(repositories) = 0) <=>
    (\A k \in 1..Len(repo_paths) : ~MatchesRepository(repo_paths[k]))

\* C15 as claimed: a run in which no pattern matches a repository has
\* self.repositories empty and main returns 1 without analyzing; a run that
\* found repositories but no commit has self.repositories non-empty, no
\* commit table, and main returns 0.
C15_Distinguishable ==
  /\ EmptyIffNoMatch
  /\ result.op = "main" =>
       /\ Len(repositories) = 0 =>
            (result.exit = <<1>> /\ ncalls = 0 /\ stats = <<>>)
       /\ (Len(repositories) > 0 /\ df.none) =>
            (result.exit = <<0>> /\ ncalls = 1)

\* The dashboard was asked for and did not start.
GraphFailed ==
  /\ result.options.launch_graph
  /\ result.options.streamlit \in {"CalledProcessError", "FileNotFoundError"}

\* C15 amended: as claimed, except that in the run that found repositories
\* but no commit main returns 0 unless the dashboard was asked for and
\* failed to start; in every case that run has analyzed and has not printed
\* the message of the run without repositories.
C15_DistinguishableUnlessGraphFails ==
  /\ EmptyIffNoMatch
  /\ result.op = "main" =>
       /\ Len(repositories) = 0 =>
            /\ result.exit = <<1>>
            /\ ncalls = 0
            /\ stats = <<>>
            /\ result.signal = "No valid Git repositories found"
       /\ (Len(repositories) > 0 /\ df.none) =>
            /\ ncalls = 1
            /\ result.signal # "No valid Git repositories found"
            /\ ~GraphFailed => result.exit = <<0>>
            /\ GraphFailed => result.exit = <<1>>

\* C15 witness: main has run on a repository that holds no commit, after a
\* path that matches nothing.
C15_Witness ==
  /\ result.op = "main"
  /\ Len(repo_paths) = 2
  /\ Len(repositories) = 1
  /\ repositories[1] = RepoPath("E")
  /\ df.none
  /\ result.exit = <<0>>

\* The rows of the commit table whose author is a.
RowsOf(a) == {i \in 1..Len(df.rows) : df.rows[i].author = a}

RECURSIVE SumOver(_, _)
SumOver(I, col) ==
  IF I = {} THEN 0
  ELSE LET i == CHOOSE i \in I : TRUE IN df.rows[i][col] + SumOver(I \ {i}, col)

\* C16: get_contributor_summary returns one row for each author of the
\* commit table and no other row; the row carries the number of the
\* author's commits and the sums of their lines added and deleted, and no
\* row has more commits than a row before it.
C16_ContributorSummary ==
  (result.op = "get_contributor_summary" /\ ~df.none) =>
    LET rows == result.frame.rows
    IN /\ {rows[j].author : j \in 1..Len(rows)} = {df.rows[i].author : i \in 1..Len(df.rows)}
       /\ \A i, j \in 1..Len(rows) : i # j => rows[i].author # rows[j].author
       /\ \A j \in 1..Len(rows) :
            /\ rows[j].commit_hash = Cardinality(RowsOf(rows[j].author))
            /\ rows[j].lines_added = SumOver(RowsOf(rows[j].author), "lines_added")
            /\ rows[j].lines_deleted = SumOver(RowsOf(rows[j].author), "lines_deleted")
       /\ \A i, j \in 1..Len(rows) : i < j => rows[i].commit_hash >= rows[j].commit_hash

\* C16 witness: a summary of two or more contributors of whom one has more
\* commits than another.
C16_Witness ==
  /\ result.op = "get_contributor_summary"
  /\ ~df.none
  /\ \E i, j \in 1..Len(result.frame.rows) :
       result.frame.rows[i].commit_hash > result.frame.rows[j].commit_hash

\* The repositories on disk that each pattern of the model matches.
PatternRepos(pattern) ==
  CASE pattern = <<"A">> -> {"A"}
    [] pattern = <<"B">> -> {"B"}
    [] pattern = <<"/", "s", "r", "v", "/", "C">> -> {"C"}
    [] pattern = <<"/", "s", "r", "v", "/", "E">> -> {"E"}
    [] pattern = <<"d", "o", "c", "s", "/", "D">> -> {"D"}
    [] pattern = <<"d", "o", "c", "s", "/", ".", ".", "/", "B">> -> {"B"}
    [] pattern = <<"*">> -> {"A", "B"}
    [] pattern = <<"d", "o", "c", "s", "/", "*">> -> {"D"}
    [] OTHER -> {}

\* The number of repositories the patterns before the k-th match.
RECURSIVE MatchedBefore(_)
MatchedBefore(k) ==
  IF k <= 1 THEN 0
  ELSE MatchedBefore(k - 1) + Cardinality(PatternRepos(repo_paths[k - 1]))

\* C17: construction returns, and self.repositories is, pattern after
\* pattern, the absolute paths of the repositories the pattern matches, each
\* once: nothing that is no repository is in the list, and the list is
\* empty when no pattern matches a repository.
C17_DiscoveryExact ==
  /\ result.op = "__init__" => result.outcome = "return"
  /\ Len(repositories) = MatchedBefore(Len(repo_paths) + 1)
  /\ \A k \in 1..Len(repo_paths) :
       {repositories[i] : i \in (MatchedBefore(k) + 1)..MatchedBefore(k + 1)}
         = {RepoPath(r) : r \in PatternRepos(repo_paths[k])}

\* C17 witness: the patterns docs/* and * gave repository D, left out the
\* file beside it, then gave B before A and left out the directory docs.
C17_Witness ==
  /\ result.op = "__init__"
  /\ repo_paths = <<<<"d", "o", "c", "s", "/", "*">>, <<"*">>>>
  /\ repositories = <<RepoPath("D"), RepoPath("B"), RepoPath("A")>>
  /\ Len(result.warnings) = 2

\* C18: every pattern that contributes no repository (a path that does not
\* exist, a file, a directory that is no repository) is warned about by
\* discovery, which goes on to the patterns after it: the warnings of the
\* construction name the pattern or a match of it, and the repositories of
\* the later patterns are in self.repositories.
C18_DiscoveryErrorsLogged ==
  result.op = "__init__" =>
    \A k \in 1..Len(repo_paths) :
      PatternRepos(repo_paths[k]) = {} =>
        /\ \E w \in 1..Len(result.warnings) :
             \/ result.warnings[w].subject = repo_paths[k]
             \/ \E i \in 1..Len(Glob(repo_paths[k])) :
                  result.warnings[w].subject = Glob(repo_paths[k])[i]
        /\ \A j \in (k + 1)..Len(repo_paths) :
             \A r \in PatternRepos(repo_paths[j]) :
               \E i \in 1..Len(repositories) : repositories[i] = RepoPath(r)

\* A step taken inside a call of analyze_repositories.
InsideAnalyze == Len(pc) = 1

\* What a step inside analyze_repositories may do: add the records of the
\* next repository of the list and leave self.df alone, or, when every
\* repository has been extracted, write self.df and end the call.
C19_StepOrder ==
  InsideAnalyze =>
    /\ stats' # stats =>
         /\ pc[1] < Len(repositories)
         /\ pc' = <<pc[1] + 1>>
         /\ Len(stats') >= Len(stats)
         /\ SubSeq(stats', 1, Len(stats)) = stats
         /\ \A k \in (Len(stats) + 1)..Len(stats') :
              stats'[k].commit_hash \in HashesOf(repositories[pc[1] + 1])
         /\ df' = df
    /\ df' # df =>
         /\ pc = <<Len(repositories)>>
         /\ pc' = <<>>
         /\ stats' = stats
         /\ Len(stats) = (ncalls + 1) * CommitsListed(1)
    /\ pc' = <<>> => pc = <<Len(repositories)>>

\* C19: inside a call of analyze_repositories a step that adds records adds
\* those of one repository, the next of self.repositories in order, and
\* leaves self.df alone; self.df is written only by the step that ends the
\* call, taken when every repository of the list has been extracted.
C19_SequentialThenIngest == [][C19_StepOrder]_vars

\* C19 witness: inside a call, the first of two repositories has been
\* extracted and there is no commit table yet.
C19_Witness ==
  /\ pc = <<1>>
  /\ Len(repositories) = 2
  /\ Len(stats) > 0
  /\ df.none

\* A step of one of the read operations: it makes no analysis.
ReadStep ==
  /\ ncalls' = ncalls
  /\ result'.op \in {"get_grouped_dataframe", "get_weekly_dataframe",
                     "get_contributor_summary", "print_summary",
                     "export_to_json", "export_to_csv"}

\* C20: get_grouped_dataframe, get_weekly_dataframe, get_contributor_summary,
\* print_summary, export_to_json and export_to_csv leave self.df as it was:
\* the same columns, the same rows, the same values.
C20_ReadsLeaveTable == [][ReadStep => df' = df]_vars

(***************************************************************************)
(* C21: grouping carries nothing from one call to the next.                 *)
(***************************************************************************)

\* The table of an analyzer that has just ingested the records of self.stats
\* and has grouped nothing yet.
FreshTable == IF Len(stats) > 0 THEN _create_dataframe(stats) ELSE None

\* C21: a get_grouped_dataframe call with a period of day, week or month
\* returns the frame the same period gives on a freshly ingested analyzer
\* holding the same commits, whatever periods were requested before it.
C21_GroupingStateless ==
  (result.op = "get_grouped_dataframe" /\ result.arg \in Periods)
    => result.frame = GroupedDataframe(FreshTable, result.arg).frame

\* A month or day grouping returned after a weekly grouping of the same
\* table (the weekly rows have been written to the CSV file since the only
\* analysis), for commits whose week does not start with their period.
C21_Witness ==
  /\ ncalls = 1
  /\ files["stats.csv"].exists
  /\ result.op = "get_grouped_dataframe"
  /\ result.arg \in {"day", "month"}
  /\ Len(result.frame.rows) > 1
  /\ \A i \in 1..Len(df.rows) :
       PeriodStart("week", df.rows[i].date) # PeriodStart(result.arg, df.rows[i].date)

(***************************************************************************)
(* C22: a failed or empty git show costs the line counts, not the commit.   *)
(***************************************************************************)

\* The number of commits listed by the repositories before the k-th.
ListedBefore(k) == CommitsListed(1) - CommitsListed(k)

\* The record that the n-th analysis made of the j-th commit of the k-th
\* repository, when extraction drops no commit and stops nowhere.
RecordOf(n, k, j) == stats[(n - 1) * CommitsListed(1) + ListedBefore(k) + j]

\* git show prints nothing for commit h of the repository: the command
\* failed, or the commit has no stat.
ShowsNothing(repo_path, h) == repo_path \in showFails \/ ~CommitStat(h).shown

\* C22: every commit whose log line parsed is recorded by each analysis, at
\* its place in extraction order, whether or not git show failed or printed
\* nothing for it or for a commit before it; a commit git show printed
\* nothing for has lines_added = 0 and lines_deleted = 0. The record count
\* and the table lose no commit.
C22_ShowFailureKeepsCommit ==
  ncalls >= 1 =>
    /\ Len(stats) = ncalls * CommitsListed(1)
    /\ \A n \in 1..ncalls : \A k \in 1..Len(repositories) :
         repositories[k] \notin logFails =>
           \A j \in 1..Len(RepoCommits(RepoAt(repositories[k]))) :
             LET h == RepoCommits(RepoAt(repositories[k]))[j]
                 rec == RecordOf(n, k, j)
             IN /\ rec.commit_hash = BaseObj(h).hash
                /\ rec.author = BaseObj(h).author
                /\ ShowsNothing(repositories[k], h) =>
                     (rec.lines_added = 0 /\ rec.lines_deleted = 0)
                /\ ~df.none
                /\ \E i \in 1..Len(df.rows) : df.rows[i].commit_hash = rec.commit_hash

\* C22 witness: the first repository holds a commit git show prints nothing
\* for, followed by a second repository of several commits in which every
\* git show fails: all of them are recorded, the last with zero counts.
C22_Witness ==
  /\ ncalls >= 1
  /\ Len(repositories) = 2
  /\ repositories[1] \notin showFails
  /\ repositories[2] \in showFails
  /\ Len(RepoCommits(RepoAt(repositories[2]))) >= 2
  /\ \E j \in 1..Len(RepoCommits(RepoAt(repositories[1]))) :
       /\ ~CommitStat(RepoCommits(RepoAt(repositories[1]))[j]).shown
       /\ RecordOf(1, 1, j).lines_added = 0
  /\ Len(stats) = ncalls * CommitsListed(1)
  /\ stats[Len(stats)].lines_added = 0
  /\ stats[Len(stats)].lines_deleted = 0
  /\ \E i \in 1..Len(stats) : stats[i].lines_deleted > 0

(***************************************************************************)
(* C23: a call that raises for its period changes nothing.                  *)
(***************************************************************************)

\* The last call was get_grouped_dataframe and it raised.
GroupingRaised == result.op = "get_grouped_dataframe" /\ result.outcome = "raise"

\* A step that ends in a raised get_grouped_dataframe leaves self.df and
\* self.stats as they were; a valid call made right after a raised one
\* returns what its period gives on the table rebuilt from self.stats, and
\* leaves self.df as the same call leaves the table of before the failure.
C23_Step ==
  /\ GroupingRaised' =>
       /\ ~df.none
       /\ df' = df
       /\ stats' = stats
  /\ (GroupingRaised /\ result'.op = "get_grouped_dataframe" /\ result'.arg \in Periods) =>
       /\ result'.outcome = "return"
       /\ result'.frame = GroupedDataframe(FreshTable, result'.arg).frame
       /\ df'.rows = GroupedDataframe(FreshTable, result'.arg).df.rows

\* C23: when get_grouped_dataframe raises for an invalid period on an
\* analyzer holding commits, self.df (with the period_start column an
\* earlier valid call left) and self.stats are as before the call, and the
\* next valid call returns what it returns without the failed call.
C23_FailedCallNoEffect == [][C23_Step]_vars

\* C23 witness: the call raised on a table of several commits whose
\* period_start column, left by an earlier valid call, is still filled.
C23_Witness ==
  /\ GroupingRaised
  /\ result.exc = "ValueError"
  /\ ~df.none
  /\ Len(df.rows) >= 2
  /\ HasColumn(df, "period_start")
  /\ \A i \in 1..Len(df.rows) : df.rows[i].period_start # NoDate

(***************************************************************************)
(* C24: the dashboard's completion flag and the analyzer's table.           *)
(***************************************************************************)

\* C24: after any sequence of runs of the dashboard script, clicks of
\* "Analyze Repositories" among them, analysis_complete is True only if the
\* session's analyzer holds a commit table; a click whose analysis finds no
\* commit ends with analysis_complete = False; and no run ends in the
\* "Analysis failed" branch that follows the completion check.
C24_CompleteOnlyWithTable ==
  /\ AnalysisComplete(session_state) =>
       ("analyzer" \in session_state.keys /\ ~df.none)
  /\ (result.op = "streamlit_app.main" /\ result.arg = "click" /\ df.none) =>
       /\ "analysis_complete" \in session_state.keys
       /\ ~session_state.analysis_complete
       /\ result.signal = "info"
  /\ result.op = "streamlit_app.main" => result.signal # "error"

\* C24 witness: a click analyzed repositories that hold no commit, after an
\* earlier analysis had succeeded (its contributors are still in the
\* session): the flag is False and the page shows the start message.
C24_Witness ==
  /\ result.op = "streamlit_app.main"
  /\ result.arg = "click"
  /\ Len(repositories) > 0
  /\ Len(stats) = 0
  /\ df.none
  /\ Len(session_state.available_contributors) > 0
  /\ "analysis_complete" \in session_state.keys
  /\ ~session_state.analysis_complete
  /\ result.signal = "info"

====
